---- MODULE Spec2Model ----
(***************************************************************************)
(* The WebSocket relay of replit-mcp: WebSocketServer (websocket-server),  *)
(* the MCP tools that call it (src/mcp-server.ts) and the extension side   *)
(* message handler (replit-extension/main.js).                             *)
(*                                                                         *)
(* Every handler of the event loop runs to completion, so each handler is  *)
(* one action.  Date.now() is read only to set lastPing (on accept and on *)
(* pong) and to compare it with the clock inside the 30 s cleanup interval;*)
(* a record therefore keeps sinceLastPing = Date.now() - lastPing as of    *)
(* the latest tick, which is all the stale check reads.                    *)
(*                                                                         *)
(* A handler of an inbound message is an operator from the state and the  *)
(* message to the state it leaves and the envelopes it sent (`sent`).      *)
(* toClient keeps, of what the server sent on a transport, the call        *)
(* envelopes the peer has not handled yet.  What a peer sends back on any  *)
(* other envelope is among the data OnPeerData lets arrive at any time.    *)
(***************************************************************************)
EXTENDS Integers, Sequences, FiniteSets, TLC

\* ---------------------------------------------------------------- bounds
MaxConns == 2        \* transports accepted over the run
MaxCalls == 1        \* sendToExtension calls issued over the run
MaxPipelined == 2    \* sendToExtension calls issued over a run of PipelineSpec
MaxIssued == 3       \* sendToExtension calls issued over a run of RequestIdSpec
MaxClock == 2        \* milliseconds that pass over a run of RequestIdSpec
MaxOpens == 3             \* transports of the bridge.ts client that open over a run
MaxCounterOps == 2        \* calls of ReplDbCounter.increment / decrement that overlap
MaxSessions == 2          \* sessions of the user of ReplDbSessionManager
MaxSessionDepth == 4      \* nested calls of ReplDbSessionManager that are counted

\* ------------------------------------------------------ program constants
HeartbeatInterval == 30000
StaleThreshold == 60000
maxReconnectAttempts == 10
BaseReconnectDelay == 2000
MaxReconnectDelay == 30000
tsMaxReconnectAttempts == 10

\* ------------------------------------------------------------ JS values
Undefined == "undefined"      \* an absent / undefined field
EmptyString == ""
NoId == 0                     \* an absent message id
PeerMsgId == -1               \* an id chosen by the peer ('test-1', a uuid)
GeneratedId == -2             \* an id made by generateRequestId() for sendError

Truthy(v) == v \notin {Undefined, EmptyString}

ConnIds == 1..MaxConns
CallIds == 1..MaxCalls
Workspaces == {"W1", "W2"}
Tokens == {Undefined, "bad", "good"}
Values == {"v1", "v2"}
ErrorMessages == {EmptyString, "boom"}

\* the handler table of the extension (main.js setupRequestHandlers)
requestHandlers == {"read_file", "get_user_info"}

\* ------------------------------------------------------------ envelopes
Fields == {"id", "action", "token", "paramsWorkspaceId", "result", "error", "workspaceId"}

Absent(f, v) == IF f = "id" THEN v = NoId ELSE v = Undefined

BridgeMessage(id, action) ==
    [id |-> id, action |-> action, token |-> Undefined,
     paramsWorkspaceId |-> Undefined, result |-> Undefined,
     error |-> Undefined, workspaceId |-> Undefined]

\* JSON.stringify drops the undefined properties of the envelope
JSONstringify(message) ==
    [f \in {g \in Fields : ~Absent(g, message[g])} |-> message[f]]

\* data that JSON.parse rejects
Garbage == [raw |-> "not json"]

CanParse(data) == "raw" \notin DOMAIN data

\* JSON.parse, read back through property access: a missing key is undefined
JSONparse(data) ==
    [f \in Fields |-> IF f \in DOMAIN data THEN data[f]
                      ELSE IF f = "id" THEN NoId ELSE Undefined]

VARIABLES
    connections,        \* Map<string, ExtensionConnection>, in insertion order
    accepted,           \* transports accepted so far (next connection id)
    readyState,         \* ws.readyState of every transport
    pendingRequests,    \* Map<string, PendingRequest>: its key set
    timers,             \* armed setTimeout handles, by request id
    calls,              \* the promise returned by each sendToExtension call
    toClient,           \* call envelopes sent on a transport, not yet handled by the peer
    toServer,           \* responses of the extension, not yet received by the server
    closed,             \* close() was called (the process then exits)
    currentWorkspaceId, \* ReplitMCPServer.currentWorkspaceId
    regOrder,           \* history: registered connection ids, by time of their last registration
    bridgeWs,           \* main.js: the transport behind this.ws (0: none accepted)
    bridgeState,        \* main.js: this.ws as the client sees it
    reconnectAttempts,  \* main.js: this.reconnectAttempts
    reconnectDelay,     \* main.js: this.reconnectDelay
    reconnectTimer,     \* main.js: delay of the armed reconnect setTimeout (0: none)
    authenticating,     \* main.js: calls of authenticate() awaiting auth.getAuthToken()
    gaveUp,             \* main.js: messages.showError('Lost connection to MCP bridge') was called
    authAcked,          \* history: an 'authenticated' envelope was received on this.ws
    lastDelay,          \* history: delay of the previous reconnect since the last open (0: none)
    liveSockets,        \* history: WebSockets made by connect() that have not emitted 'close'
    armedTimers,        \* history: setTimeout callbacks of the close handler not yet run
    handlers,           \* main.js: the handler invocations handleMessage awaits
    started,            \* history: the ids of the envelopes whose handler was invoked, in order
    now,                \* Date.now(), in milliseconds since the start
    requestIds,         \* the id generateRequestId() gave to each call of sendToExtension
    pendingById,        \* the Map pendingRequests, by generated id: the call an entry settles
    promises,           \* the promise of each of these calls
    tsSocket,           \* bridge.ts: this.ws as the client sees it
    tsReconnectAttempts,\* bridge.ts: this.reconnectAttempts
    tsTimers,           \* bridge.ts: armed setTimeout callbacks of reconnect()
    tsSinceOpen,        \* history: reconnect attempts made since the last open
    tsOpens,            \* history: transports that opened
    tsLive,             \* history: WebSockets made by connect() that have not emitted 'close'
    connectCall,        \* history: the get_user_info call of the last replit_connect (0: none)
    workspaceBefore,    \* history: currentWorkspaceId when the last replit_connect was called
    counterValue,       \* ReplDbCounter: the values ReplDB holds under counterKey (none or one)
    incPc,              \* ReplDbCounter: where each call of increment stands
    amount,             \* ReplDbCounter.increment: amount, of each call
    current,            \* ReplDbCounter.increment: current, of each call
    sessionStore,       \* ReplDbSessionManager: what each session key holds (none, valid, expired)
    userSessions,       \* ReplDbSessionManager: the ids in user_sessions:<userId>
    sessionCall,        \* the method of ReplDbSessionManager that was called (none: no call runs)
    sessionId,          \* the sessionId of the last call and of the calls nested in it
    sessionFn,          \* the method whose frame is the innermost
    sessionPc,          \* where the innermost frame stands
    session,            \* what the call awaited by the innermost frame returned
    sessionDepth,       \* nested calls of getSession / deleteSession, counted up to MaxSessionDepth
    sessionReturned,    \* what the last call returned to its caller
    cleanupKeys,        \* cleanupExpired: the keys of keysData.keys not yet visited
    cleaned             \* cleanupExpired: cleaned

serverVars == <<connections, accepted, readyState, pendingRequests, timers, calls,
                toClient, toServer, closed, currentWorkspaceId, regOrder>>

dispatchVars == <<handlers, started>>

attemptVars == <<liveSockets, armedTimers>>

clientVars == <<bridgeWs, bridgeState, reconnectAttempts, reconnectDelay, reconnectTimer,
                authenticating, gaveUp, authAcked, lastDelay, dispatchVars, attemptVars>>

requestIdVars == <<now, requestIds, pendingById, promises>>

tsVars == <<tsSocket, tsReconnectAttempts, tsTimers, tsSinceOpen, tsOpens, tsLive>>

toolVars == <<connectCall, workspaceBefore>>

counterVars == <<counterValue, incPc, amount, current>>

dbVars == <<sessionStore, userSessions>>

frameVars == <<sessionCall, sessionId, sessionFn, sessionPc, session, sessionDepth,
               sessionReturned>>

cleanupVars == <<cleanupKeys, cleaned>>

sessionVars == <<dbVars, frameVars, cleanupVars>>

vars == <<serverVars, clientVars, requestIdVars, tsVars, toolVars, counterVars, sessionVars>>

\* ------------------------------------------------------- the registry Map
ConnIdsOf(conns) == {conns[i].id : i \in 1..Len(conns)}

HasConn(id) == id \in ConnIdsOf(connections)

GetConn(id) == connections[CHOOSE i \in 1..Len(connections) : connections[i].id = id]

SetConn(conns, rec) ==
    [i \in 1..Len(conns) |-> IF conns[i].id = rec.id THEN rec ELSE conns[i]]

DeleteConns(conns, ids) == SelectSeq(conns, LAMBDA r : r.id \notin ids)

RemoveFromSeq(s, xs) == SelectSeq(s, LAMBDA y : y \notin xs)

SeqToSet(s) == {s[i] : i \in 1..Len(s)}

\* ------------------------------------------------------------- promises
NoCall == [target |-> 0, state |-> "pending", cause |-> "none", value |-> Undefined,
           attempts |-> 0]

\* resolve()/reject() of a promise: only the first settlement takes effect
Settle(p, state, value, cause) ==
    IF p.state = "pending"
    THEN [p EXCEPT !.state = state, !.value = value, !.cause = cause, !.attempts = 1]
    ELSE [p EXCEPT !.attempts = IF @ < 2 THEN @ + 1 ELSE @]

SettleAll(cs, ids, state, value, cause) ==
    [k \in 1..Len(cs) |-> IF k \in ids THEN Settle(cs[k], state, value, cause) ELSE cs[k]]

\* ------------------------------------------------ WebSocketServer: sending
\* sendToConnection: a missing record or a transport that is not OPEN drops
\* the message silently.  Yields what ws.send() was given, and on which
\* connection.
sendToConnection(connectionId, message) ==
    IF ~HasConn(connectionId) \/ readyState[connectionId] # "OPEN"
    THEN <<>>
    ELSE <<[to |-> connectionId, data |-> JSONstringify(message)]>>

\* the data handed to ws.send(), in order
DataOf(out) == [i \in 1..Len(out) |-> out[i].data]

sendError(connectionId, error, requestId) ==
    sendToConnection(connectionId,
        [BridgeMessage(IF requestId # NoId THEN requestId ELSE GeneratedId, "error")
            EXCEPT !.error = error])

\* generateRequestId in a run where no two generated ids are equal: the ids
\* are told apart by the order of the calls (RequestIdSpec has the ids as
\* they are made)
generateRequestId == Len(calls) + 1

\* jwt.verify(token, secret): the verification hook; throws on a bad token
jwtVerify(token) == token = "good"

\* ---------------------------------------------- WebSocketServer: handlers
\* what a message handler starts from: the state, and nothing sent yet
Handling ==
    [connections |-> connections, pendingRequests |-> pendingRequests,
     timers |-> timers, calls |-> calls, regOrder |-> regOrder, sent |-> <<>>]

\* handleAuthenticate without jwt.verify: any token authenticates
handleAuthenticate_noVerify(connectionId, message) ==
    LET token == message.token IN
    IF ~Truthy(token)
    THEN [Handling EXCEPT
            !.sent = sendError(connectionId, "No authentication token provided", message.id)]
    ELSE [Handling EXCEPT
            !.connections = SetConn(connections,
                [GetConn(connectionId) EXCEPT !.isAuthenticated = TRUE]),
            !.sent = sendToConnection(connectionId,
                [BridgeMessage(message.id, "authenticated") EXCEPT !.result = "success"])]

handleAuthenticate(connectionId, message) ==
    LET token == message.token IN
    IF ~Truthy(token)
    THEN [Handling EXCEPT
            !.sent = sendError(connectionId, "No authentication token provided", message.id)]
    ELSE IF jwtVerify(token)
    THEN [Handling EXCEPT
            !.connections = SetConn(connections,
                [GetConn(connectionId) EXCEPT !.isAuthenticated = TRUE]),
            !.sent = sendToConnection(connectionId,
                [BridgeMessage(message.id, "authenticated") EXCEPT !.result = "success"])]
    ELSE [Handling EXCEPT
            !.sent = sendError(connectionId, "Invalid authentication token", message.id)]

\* handleRegisterWorkspace without the isAuthenticated check
handleRegisterWorkspace_noAuthCheck(connectionId, message) ==
    LET connection == GetConn(connectionId)
        workspaceId == message.paramsWorkspaceId
    IN
    IF ~Truthy(workspaceId)
    THEN [Handling EXCEPT
            !.sent = sendError(connectionId, "No workspace ID provided", message.id)]
    ELSE [Handling EXCEPT
            !.connections = SetConn(connections,
                [connection EXCEPT !.workspaceId = workspaceId]),
            !.regOrder = Append(RemoveFromSeq(regOrder, {connectionId}), connectionId),
            !.sent = sendToConnection(connectionId,
                [BridgeMessage(message.id, "workspace_registered")
                    EXCEPT !.result = "success"])]

handleRegisterWorkspace(connectionId, message) ==
    LET connection == GetConn(connectionId)
        workspaceId == message.paramsWorkspaceId
    IN
    IF ~connection.isAuthenticated
    THEN [Handling EXCEPT !.sent = sendError(connectionId, "Not authenticated", message.id)]
    ELSE IF ~Truthy(workspaceId)
    THEN [Handling EXCEPT
            !.sent = sendError(connectionId, "No workspace ID provided", message.id)]
    ELSE [Handling EXCEPT
            !.connections = SetConn(connections,
                [connection EXCEPT !.workspaceId = workspaceId]),
            !.regOrder = Append(RemoveFromSeq(regOrder, {connectionId}), connectionId),
            !.sent = sendToConnection(connectionId,
                [BridgeMessage(message.id, "workspace_registered")
                    EXCEPT !.result = "success"])]

\* handleResponse without the lookup in the table: settles whatever id it is given
handleResponse_unguarded(message) ==
    IF message.id \notin 1..Len(calls)
    THEN Handling
    ELSE [Handling EXCEPT
            !.pendingRequests = pendingRequests \ {message.id},
            !.timers = timers \ {message.id},
            !.calls = IF Truthy(message.error)
                      THEN [calls EXCEPT ![message.id] =
                                Settle(@, "rejected", message.error, "response")]
                      ELSE [calls EXCEPT ![message.id] =
                                Settle(@, "resolved", message.result, "response")]]

handleResponse(message) ==
    IF message.id \notin pendingRequests
    THEN Handling
    ELSE [Handling EXCEPT
            !.pendingRequests = pendingRequests \ {message.id},
            !.timers = timers \ {message.id},
            !.calls = IF Truthy(message.error)
                      THEN [calls EXCEPT ![message.id] =
                                Settle(@, "rejected", message.error, "response")]
                      ELSE [calls EXCEPT ![message.id] =
                                Settle(@, "resolved", message.result, "response")]]

\* handleMessage whose 'ping' case sends nothing
handleMessage_pingUnanswered(connectionId, message) ==
    IF ~HasConn(connectionId)
    THEN Handling
    ELSE CASE message.action = "authenticate" -> handleAuthenticate(connectionId, message)
           [] message.action = "register_workspace" ->
                handleRegisterWorkspace(connectionId, message)
           [] message.action = "response" -> handleResponse(message)
           [] message.action = "ping" -> Handling
           [] OTHER ->
                IF message.id # NoId /\ message.id \in pendingRequests
                THEN handleResponse(message)
                ELSE [Handling EXCEPT
                        !.sent = sendError(connectionId, "Unknown action", message.id)]

\* a handleMessage that answers a response nobody waits for with an error
handleMessage_lateResponseRejected(connectionId, message) ==
    IF ~HasConn(connectionId)
    THEN Handling
    ELSE CASE message.action = "authenticate" -> handleAuthenticate(connectionId, message)
           [] message.action = "register_workspace" ->
                handleRegisterWorkspace(connectionId, message)
           [] message.action = "response" ->
                IF message.id \in pendingRequests
                THEN handleResponse(message)
                ELSE [Handling EXCEPT
                        !.sent = sendError(connectionId, "Unknown request", message.id)]
           [] message.action = "ping" ->
                [Handling EXCEPT
                    !.sent = sendToConnection(connectionId, BridgeMessage(message.id, "pong"))]
           [] OTHER ->
                IF message.id # NoId /\ message.id \in pendingRequests
                THEN handleResponse(message)
                ELSE [Handling EXCEPT
                        !.sent = sendError(connectionId, "Unknown action", message.id)]

\* a handleMessage that says nothing to an action it does not know
handleMessage_unknownIgnored(connectionId, message) ==
    IF ~HasConn(connectionId)
    THEN Handling
    ELSE CASE message.action = "authenticate" -> handleAuthenticate(connectionId, message)
           [] message.action = "register_workspace" ->
                handleRegisterWorkspace(connectionId, message)
           [] message.action = "response" -> handleResponse(message)
           [] message.action = "ping" ->
                [Handling EXCEPT
                    !.sent = sendToConnection(connectionId, BridgeMessage(message.id, "pong"))]
           [] OTHER ->
                IF message.id # NoId /\ message.id \in pendingRequests
                THEN handleResponse(message)
                ELSE Handling

handleMessage(connectionId, message) ==
    IF ~HasConn(connectionId)
    THEN Handling
    ELSE CASE message.action = "authenticate" -> handleAuthenticate(connectionId, message)
           [] message.action = "register_workspace" ->
                handleRegisterWorkspace(connectionId, message)
           [] message.action = "response" -> handleResponse(message)
           [] message.action = "ping" ->
                [Handling EXCEPT
                    !.sent = sendToConnection(connectionId, BridgeMessage(message.id, "pong"))]
           [] OTHER ->
                IF message.id # NoId /\ message.id \in pendingRequests
                THEN handleResponse(message)
                ELSE [Handling EXCEPT
                        !.sent = sendError(connectionId, "Unknown action", message.id)]

\* a listener that drops the connection whose data does not parse
MessageListener_dropsOnGarbage(connectionId, data) ==
    IF CanParse(data)
    THEN handleMessage(connectionId, JSONparse(data))
    ELSE [Handling EXCEPT !.connections = DeleteConns(connections, {connectionId})]

\* ws.on('message'): parse, then handleMessage; a parse failure is answered
MessageListener(connectionId, data) ==
    IF CanParse(data)
    THEN handleMessage(connectionId, JSONparse(data))
    ELSE [Handling EXCEPT !.sent = sendError(connectionId, "Invalid message format", NoId)]

\* rejectPendingRequests that rejects every entry and leaves it in the table
rejectPendingRequests_leavesEntries(connectionId, reason) ==
    /\ calls' = SettleAll(calls, pendingRequests, "rejected", reason, "eviction")
    /\ timers' = timers \ pendingRequests
    /\ pendingRequests' = pendingRequests

\* rejectPendingRequests: rejects every entry of the table, whatever the
\* connection it was sent to, clears its timer and deletes it
rejectPendingRequests(connectionId, reason) ==
    /\ calls' = SettleAll(calls, pendingRequests, "rejected", reason, "eviction")
    /\ timers' = timers \ pendingRequests
    /\ pendingRequests' = {}

\* the queues of a transport that leaves OPEN carry nothing further
DropQueues(q, ids) == [c \in ConnIds |-> IF c \in ids THEN <<>> ELSE q[c]]

\* -------------------------------------------- WebSocketServer: transport
\* wss.on('connection'): handleConnection
handleConnection ==
    /\ ~closed
    /\ accepted < MaxConns
    /\ LET connectionId == accepted + 1 IN
       /\ connections' = Append(connections,
              [id |-> connectionId, workspaceId |-> EmptyString,
               isAuthenticated |-> FALSE, sinceLastPing |-> 0])
       /\ readyState' = [readyState EXCEPT ![connectionId] = "OPEN"]
       /\ accepted' = connectionId
    /\ UNCHANGED <<pendingRequests, timers, calls, toClient, toServer, closed,
                   currentWorkspaceId, regOrder>>

\* a 'message' event of the transport of connection c
OnMessage(c, data) ==
    /\ ~closed
    /\ readyState[c] = "OPEN"
    /\ \E after \in {MessageListener(c, data)} :
       /\ connections' = after.connections
       /\ pendingRequests' = after.pendingRequests
       /\ timers' = after.timers
       /\ calls' = after.calls
       /\ regOrder' = after.regOrder
    /\ UNCHANGED <<accepted, readyState, toClient, closed, currentWorkspaceId>>

\* the next message of the extension arrives
OnExtensionData(c) ==
    /\ toServer[c] # <<>>
    /\ OnMessage(c, Head(toServer[c]))
    /\ toServer' = [toServer EXCEPT ![c] = Tail(@)]

\* ws.on('pong')
OnPong(c) ==
    /\ ~closed
    /\ readyState[c] = "OPEN"
    /\ HasConn(c)
    /\ connections' = SetConn(connections, [GetConn(c) EXCEPT !.sinceLastPing = 0])
    /\ UNCHANGED <<accepted, readyState, pendingRequests, timers, calls, toClient,
                   toServer, closed, currentWorkspaceId, regOrder>>

\* the peer's close frame arrives: readyState becomes CLOSING, 'close' is
\* emitted later, when the socket has ended
OnCloseFrame(c) ==
    /\ ~closed
    /\ readyState[c] = "OPEN"
    /\ readyState' = [readyState EXCEPT ![c] = "CLOSING"]
    /\ toClient' = DropQueues(toClient, {c})
    /\ toServer' = DropQueues(toServer, {c})
    /\ UNCHANGED <<connections, accepted, pendingRequests, timers, calls, closed,
                   currentWorkspaceId, regOrder>>

\* ws.on('close'): also emitted after terminate() and after an error, when
\* the record is already gone
OnClose(c) ==
    /\ ~closed
    /\ readyState[c] \in {"OPEN", "CLOSING"}
    /\ readyState' = [readyState EXCEPT ![c] = "CLOSED"]
    /\ connections' = DeleteConns(connections, {c})
    /\ regOrder' = RemoveFromSeq(regOrder, {c})
    /\ rejectPendingRequests(c, "Connection closed")
    /\ toClient' = DropQueues(toClient, {c})
    /\ toServer' = DropQueues(toServer, {c})
    /\ UNCHANGED <<accepted, closed, currentWorkspaceId>>

\* ws.on('error'): the transport then closes and emits 'close'
OnError(c) ==
    /\ ~closed
    /\ readyState[c] = "OPEN"
    /\ readyState' = [readyState EXCEPT ![c] = "CLOSING"]
    /\ connections' = DeleteConns(connections, {c})
    /\ regOrder' = RemoveFromSeq(regOrder, {c})
    /\ rejectPendingRequests(c, "Connection error")
    /\ toClient' = DropQueues(toClient, {c})
    /\ toServer' = DropQueues(toServer, {c})
    /\ UNCHANGED <<accepted, closed, currentWorkspaceId>>

\* the scan of the cleanup tick: now - connection.lastPing at the tick, the
\* records whose transport is not OPEN, those that are stale (terminated),
\* and those that are sent a ping
notOpenConnections == {id \in ConnIdsOf(connections) : readyState[id] # "OPEN"}

\* a scan that finds no record stale
staleConnections_never == {}

\* a scan that lets a record miss one more tick
staleConnections_late ==
    {id \in ConnIdsOf(connections) \ notOpenConnections :
        GetConn(id).sinceLastPing + HeartbeatInterval > StaleThreshold + HeartbeatInterval}

staleConnections ==
    {id \in ConnIdsOf(connections) \ notOpenConnections :
        GetConn(id).sinceLastPing + HeartbeatInterval > StaleThreshold}

pingedConnections == ConnIdsOf(connections) \ (notOpenConnections \cup staleConnections)

\* setInterval callback of startCleanupInterval, every 30 s
startCleanupInterval ==
    /\ ~closed
    /\ LET stale == staleConnections
           deadConnections == notOpenConnections \cup stale
           alive == DeleteConns(connections, deadConnections)
       IN
       /\ readyState' = [id \in ConnIds |->
                            IF id \in stale THEN "CLOSING" ELSE readyState[id]]  \* ws.terminate()
       /\ connections' = [i \in 1..Len(alive) |->
                            [alive[i] EXCEPT !.sinceLastPing = @ + HeartbeatInterval]]
       /\ regOrder' = RemoveFromSeq(regOrder, deadConnections)
       /\ IF deadConnections # {}
          THEN rejectPendingRequests(0, "Connection terminated")
          ELSE UNCHANGED <<pendingRequests, timers, calls>>
       /\ toClient' = DropQueues(toClient, stale)
       /\ toServer' = DropQueues(toServer, stale)
    /\ UNCHANGED <<accepted, closed, currentWorkspaceId>>

\* the setTimeout callback armed by sendToExtension
RequestTimeout(requestId) ==
    /\ ~closed
    /\ requestId \in timers
    /\ timers' = timers \ {requestId}
    /\ pendingRequests' = pendingRequests \ {requestId}
    /\ calls' = [calls EXCEPT ![requestId] = Settle(@, "rejected", "Request timeout", "timeout")]
    /\ UNCHANGED <<connections, accepted, readyState, toClient, toServer, closed,
                   currentWorkspaceId, regOrder>>

\* close(): closes every transport, rejects every pending request and leaves
\* the table as it is; the SIGINT handler then exits the process
close ==
    /\ ~closed
    /\ closed' = TRUE
    /\ readyState' = [id \in ConnIds |->
                        IF HasConn(id) /\ readyState[id] = "OPEN" THEN "CLOSING"
                        ELSE readyState[id]]
    /\ timers' = timers \ pendingRequests
    /\ calls' = SettleAll(calls, pendingRequests, "rejected", "Server shutting down", "shutdown")
    /\ UNCHANGED <<connections, accepted, pendingRequests, toClient, toServer,
                   currentWorkspaceId, regOrder>>

\* ------------------------------------------------- WebSocketServer: calls
\* a lookup that takes the first authenticated record bound to any workspace
FindConnection_anyBound(workspaceId) ==
    LET matches == {i \in 1..Len(connections) :
                        /\ Truthy(connections[i].workspaceId)
                        /\ connections[i].isAuthenticated}
    IN IF matches = {} THEN 0
       ELSE connections[CHOOSE i \in matches : \A j \in matches : i <= j].id

\* Array.from(connections.values()).find(...): the first match in Map order
FindConnection(workspaceId) ==
    LET matches == {i \in 1..Len(connections) :
                        /\ connections[i].workspaceId = workspaceId
                        /\ connections[i].isAuthenticated}
    IN IF matches = {} THEN 0
       ELSE connections[CHOOSE i \in matches : \A j \in matches : i <= j].id

sendToExtension(workspaceId, action) ==
    LET connectionId == FindConnection(workspaceId) IN
    IF connectionId = 0
    THEN /\ calls' = Append(calls, [NoCall EXCEPT !.state = "rejected",
                                       !.cause = "unreachable",
                                       !.value = "No authenticated extension found",
                                       !.attempts = 1])
         /\ UNCHANGED <<pendingRequests, timers, toClient>>
    ELSE LET requestId == generateRequestId IN
         /\ timers' = timers \cup {requestId}
         /\ pendingRequests' = pendingRequests \cup {requestId}
         /\ toClient' = [toClient EXCEPT ![connectionId] = @ \o
                DataOf(sendToConnection(connectionId,
                    [BridgeMessage(requestId, action) EXCEPT !.workspaceId = workspaceId]))]
         /\ calls' = Append(calls, [NoCall EXCEPT !.target = connectionId])

getActiveWorkspaces ==
    LET active == SelectSeq(connections,
                      LAMBDA conn : conn.isAuthenticated /\ Truthy(conn.workspaceId))
    IN [i \in 1..Len(active) |-> active[i].workspaceId]

getConnectionStats ==
    [totalConnections |-> Len(connections),
     authenticatedConnections |->
        Len(SelectSeq(connections, LAMBDA conn : conn.isAuthenticated)),
     activeWorkspaces |-> Len(getActiveWorkspaces),
     pendingRequests |-> Cardinality(pendingRequests)]

\* ------------------------------------------------------------ MCP tools
\* replit_connect
ReplitConnect(workspaceId) ==
    /\ ~closed
    /\ Len(calls) < MaxCalls
    /\ LET activeWorkspaces == getActiveWorkspaces
           targetWorkspace == IF Truthy(workspaceId) THEN workspaceId
                              ELSE activeWorkspaces[Len(activeWorkspaces)]
       IN
       IF Len(activeWorkspaces) = 0
       THEN /\ UNCHANGED <<pendingRequests, timers, calls, toClient, currentWorkspaceId>>
            /\ connectCall' = 0
       ELSE IF targetWorkspace \notin SeqToSet(activeWorkspaces)
       THEN /\ UNCHANGED <<pendingRequests, timers, calls, toClient, currentWorkspaceId>>
            /\ connectCall' = 0
       ELSE /\ currentWorkspaceId' = targetWorkspace
            /\ sendToExtension(targetWorkspace, "get_user_info")
            /\ connectCall' = Len(calls) + 1
    /\ workspaceBefore' = currentWorkspaceId
    /\ UNCHANGED <<connections, accepted, readyState, toServer, closed, regOrder>>

\* const targetWorkspace = workspaceId || this.currentWorkspaceId
TargetWorkspace(workspaceId) ==
    IF Truthy(workspaceId) THEN workspaceId ELSE currentWorkspaceId

\* the handler of replit_read_file, and of every other tool of the same shape
ReadFileTool(workspaceId) ==
    /\ ~closed
    /\ LET targetWorkspace == TargetWorkspace(workspaceId) IN
       IF ~Truthy(targetWorkspace)
       THEN UNCHANGED <<pendingRequests, timers, calls, toClient>>
       ELSE sendToExtension(targetWorkspace, "read_file")
    /\ UNCHANGED <<connections, accepted, readyState, toServer, closed,
                   currentWorkspaceId, regOrder>>

\* replit_read_file is called
ReplitReadFile(workspaceId) ==
    /\ Len(calls) < MaxCalls
    /\ ReadFileTool(workspaceId)

\* a sendResponse that sends nothing when the response carries an error
sendResponse_silentOnError(c, requestId, result, error) ==
    IF readyState[c] = "OPEN" /\ error = Undefined
    THEN [toServer EXCEPT ![c] = Append(@,
            JSONstringify([BridgeMessage(requestId, "response")
                              EXCEPT !.result = result, !.error = error]))]
    ELSE toServer

\* ------------------------------------------ extension side (main.js)
\* sendResponse / sendMessage: sent only on an open transport
sendResponse(c, requestId, result, error) ==
    IF readyState[c] = "OPEN"
    THEN [toServer EXCEPT ![c] = Append(@,
            JSONstringify([BridgeMessage(requestId, "response")
                              EXCEPT !.result = result, !.error = error]))]
    ELSE toServer

\* ws.on('message') of the extension: handleMessage.  The handler of a known
\* action returns a value or throws.
ExtensionHandleMessage(c) ==
    /\ readyState[c] = "OPEN"
    /\ toClient[c] # <<>>
    /\ toClient' = [toClient EXCEPT ![c] = Tail(@)]
    /\ LET message == JSONparse(Head(toClient[c])) IN
       IF ~Truthy(message.action) \/ message.action \notin requestHandlers
       THEN toServer' = sendResponse(c, message.id, Undefined, "Unknown action")
       ELSE \/ \E v \in Values : toServer' = sendResponse(c, message.id, v, Undefined)
            \/ \E e \in ErrorMessages : toServer' = sendResponse(c, message.id, Undefined, e)
    /\ UNCHANGED <<connections, accepted, readyState, pendingRequests, timers, calls,
                   closed, currentWorkspaceId, regOrder>>

\* ------------------------------------------------------ any other peer
\* what a peer may send besides the responses of the extension handlers
\* (the handshake, test-bridge.js, a forged or late response, data that is
\* no JSON)
PeerEnvelopes ==
    {[BridgeMessage(id, "authenticate") EXCEPT !.token = t] :
        id \in {NoId, PeerMsgId}, t \in Tokens}
    \cup {[BridgeMessage(id, "register_workspace") EXCEPT !.paramsWorkspaceId = w] :
        id \in {NoId, PeerMsgId}, w \in Workspaces \cup {Undefined}}
    \cup {BridgeMessage(id, a) :
        id \in {NoId, PeerMsgId} \cup CallIds, a \in {"ping", "read_file"}}
    \cup {[BridgeMessage(id, "response") EXCEPT !.result = v] :
        id \in {PeerMsgId} \cup CallIds, v \in Values}
    \cup {[BridgeMessage(id, "response") EXCEPT !.error = e] :
        id \in {PeerMsgId} \cup CallIds, e \in ErrorMessages}

PeerData == {JSONstringify(m) : m \in PeerEnvelopes} \cup {Garbage}

\* data of any other peer arrives
OnPeerData(c) ==
    /\ \E data \in PeerData : OnMessage(c, data)
    /\ UNCHANGED toServer

\* --------------------------------------- the client of main.js, connected
\* this.workspaceId of the client
BridgeWorkspace == "W1"

Min(a, b) == IF a < b THEN a ELSE b

\* a sendMessage that hands the message to the transport whatever its state
sendMessage_whateverState(q, message) ==
    IF bridgeWs # 0
    THEN [q EXCEPT ![bridgeWs] = Append(@, JSONstringify(message))]
    ELSE q

\* what the caller of sendMessage gets: it returns normally on both paths, and
\* the path of a transport that is not open only logs a warning
sendMessageOutcome ==
    IF bridgeState = "open" /\ bridgeWs # 0 /\ readyState[bridgeWs] = "OPEN"
    THEN "sent"
    ELSE "warned"

\* sendMessage: sent only while this.ws is open
sendMessage(q, message) ==
    IF bridgeState = "open" /\ bridgeWs # 0 /\ readyState[bridgeWs] = "OPEN"
    THEN [q EXCEPT ![bridgeWs] = Append(@, JSONstringify(message))]
    ELSE q

\* connect(): new WebSocket(wsUrl)
connect ==
    /\ bridgeState' = "connecting"
    /\ bridgeWs' = 0
    /\ authAcked' = FALSE
    /\ liveSockets' = liveSockets + 1

\* init(): the first connect()
ClientInit ==
    /\ bridgeState = "idle"
    /\ connect
    /\ UNCHANGED <<reconnectAttempts, reconnectDelay, reconnectTimer, authenticating,
                   gaveUp, lastDelay, armedTimers>>
    /\ UNCHANGED serverVars

\* the server accepts the transport the client is opening
ServerAccept ==
    /\ bridgeState = "connecting"
    /\ bridgeWs = 0
    /\ handleConnection
    /\ bridgeWs' = accepted + 1
    /\ UNCHANGED <<bridgeState, reconnectAttempts, reconnectDelay, reconnectTimer,
                   authenticating, gaveUp, authAcked, lastDelay, attemptVars>>

\* ws.on('open'): resets the counters and starts authenticate()
ClientOnOpen ==
    /\ bridgeState = "connecting"
    /\ bridgeWs # 0
    /\ readyState[bridgeWs] = "OPEN"
    /\ bridgeState' = "open"
    /\ reconnectAttempts' = 0
    /\ reconnectDelay' = BaseReconnectDelay
    /\ authenticating' = authenticating + 1
    /\ lastDelay' = 0
    /\ UNCHANGED <<bridgeWs, reconnectTimer, gaveUp, authAcked, attemptVars>>
    /\ UNCHANGED serverVars

\* authenticate() with the two sends in the opposite order
ClientAuthenticate_registerFirst ==
    /\ authenticating > 0
    /\ authenticating' = authenticating - 1
    /\ \/ \E token \in Tokens \ {Undefined} :
            toServer' = sendMessage(
                sendMessage(toServer,
                    [BridgeMessage(NoId, "register_workspace")
                        EXCEPT !.paramsWorkspaceId = BridgeWorkspace]),
                [BridgeMessage(NoId, "authenticate") EXCEPT !.token = token])
       \/ UNCHANGED toServer
    /\ UNCHANGED <<bridgeWs, bridgeState, reconnectAttempts, reconnectDelay, reconnectTimer,
                   gaveUp, authAcked, lastDelay, attemptVars>>
    /\ UNCHANGED <<connections, accepted, readyState, pendingRequests, timers, calls,
                   toClient, closed, currentWorkspaceId, regOrder>>

\* authenticate(), after auth.getAuthToken(): sends authenticate and then
\* register_workspace, or nothing when getAuthToken() threw
ClientAuthenticate ==
    /\ authenticating > 0
    /\ authenticating' = authenticating - 1
    /\ \/ \E token \in Tokens \ {Undefined} :
            toServer' = sendMessage(
                sendMessage(toServer,
                    [BridgeMessage(NoId, "authenticate") EXCEPT !.token = token]),
                [BridgeMessage(NoId, "register_workspace")
                    EXCEPT !.paramsWorkspaceId = BridgeWorkspace])
       \/ UNCHANGED toServer
    /\ UNCHANGED <<bridgeWs, bridgeState, reconnectAttempts, reconnectDelay, reconnectTimer,
                   gaveUp, authAcked, lastDelay, attemptVars>>
    /\ UNCHANGED <<connections, accepted, readyState, pendingRequests, timers, calls,
                   toClient, closed, currentWorkspaceId, regOrder>>

\* ws.on('message') of the client
ClientOnMessage ==
    /\ bridgeState = "open"
    /\ bridgeWs # 0
    /\ ExtensionHandleMessage(bridgeWs)
    /\ authAcked' = (authAcked \/ JSONparse(Head(toClient[bridgeWs])).action = "authenticated")
    /\ UNCHANGED <<bridgeWs, bridgeState, reconnectAttempts, reconnectDelay, reconnectTimer,
                   authenticating, gaveUp, lastDelay, attemptVars>>

\* a close handler that arms the reconnect timer whatever the attempt count
ClientOnClose_alwaysRetries ==
    /\ bridgeState \in {"connecting", "open"}
    /\ IF bridgeWs = 0 THEN TRUE ELSE readyState[bridgeWs] # "OPEN"
    /\ bridgeState' = "closed"
    /\ liveSockets' = liveSockets - 1
    /\ reconnectTimer' = reconnectDelay
    /\ armedTimers' = armedTimers + 1
    /\ lastDelay' = reconnectDelay
    /\ UNCHANGED gaveUp
    /\ UNCHANGED <<bridgeWs, reconnectAttempts, reconnectDelay, authenticating, authAcked>>
    /\ UNCHANGED serverVars

\* ws.on('close'): the connection attempt failed or the transport went down
ClientOnClose ==
    /\ bridgeState \in {"connecting", "open"}
    /\ IF bridgeWs = 0 THEN TRUE ELSE readyState[bridgeWs] # "OPEN"
    /\ bridgeState' = "closed"
    /\ liveSockets' = liveSockets - 1
    /\ IF reconnectAttempts < maxReconnectAttempts
       THEN /\ reconnectTimer' = reconnectDelay
            /\ armedTimers' = armedTimers + 1
            /\ lastDelay' = reconnectDelay
            /\ UNCHANGED gaveUp
       ELSE /\ gaveUp' = TRUE
            /\ UNCHANGED <<reconnectTimer, lastDelay, armedTimers>>
    /\ UNCHANGED <<bridgeWs, reconnectAttempts, reconnectDelay, authenticating, authAcked>>
    /\ UNCHANGED serverVars

\* a reconnect callback that leaves the delay as it is
ReconnectTimer_sameDelay ==
    /\ reconnectTimer # 0
    /\ reconnectTimer' = 0
    /\ armedTimers' = armedTimers - 1
    /\ reconnectAttempts' = reconnectAttempts + 1
    /\ UNCHANGED reconnectDelay
    /\ connect
    /\ UNCHANGED <<authenticating, gaveUp, lastDelay>>
    /\ UNCHANGED serverVars

\* a reconnect callback armed with setInterval: it stays armed after it ran
ReconnectTimer_interval ==
    /\ reconnectTimer # 0
    /\ UNCHANGED <<reconnectTimer, armedTimers>>
    /\ reconnectAttempts' = reconnectAttempts + 1
    /\ reconnectDelay' = Min(reconnectDelay * 2, MaxReconnectDelay)
    /\ connect
    /\ UNCHANGED <<authenticating, gaveUp, lastDelay>>
    /\ UNCHANGED serverVars

\* the setTimeout callback of the close handler
ReconnectTimer ==
    /\ reconnectTimer # 0
    /\ reconnectTimer' = 0
    /\ armedTimers' = armedTimers - 1
    /\ reconnectAttempts' = reconnectAttempts + 1
    /\ reconnectDelay' = Min(reconnectDelay * 2, MaxReconnectDelay)
    /\ connect
    /\ UNCHANGED <<authenticating, gaveUp, lastDelay>>
    /\ UNCHANGED serverVars

\* ws.on('message') of the server for what the client sent; the replies go
\* to the client
OnClientData(c) ==
    /\ ~closed
    /\ readyState[c] = "OPEN"
    /\ toServer[c] # <<>>
    /\ \E after \in {MessageListener(c, Head(toServer[c]))} :
       /\ connections' = after.connections
       /\ pendingRequests' = after.pendingRequests
       /\ timers' = after.timers
       /\ calls' = after.calls
       /\ regOrder' = after.regOrder
       /\ toClient' = [d \in ConnIds |->
                          toClient[d] \o DataOf(SelectSeq(after.sent, LAMBDA m : m.to = d))]
    /\ toServer' = [toServer EXCEPT ![c] = Tail(@)]
    /\ UNCHANGED <<accepted, readyState, closed, currentWorkspaceId>>
    /\ UNCHANGED <<clientVars, requestIdVars, tsVars, toolVars, counterVars, sessionVars>>

\* ------------------------------- main.js: handlers that take their time
\* what authenticate() of an extension sends with an accepted token
HandshakeData ==
    {JSONstringify([BridgeMessage(NoId, "authenticate") EXCEPT !.token = "good"])}
    \cup {JSONstringify([BridgeMessage(NoId, "register_workspace")
                            EXCEPT !.paramsWorkspaceId = w]) : w \in Workspaces}

\* an envelope of the extension's handshake arrives
OnHandshakeData(c) ==
    /\ \E data \in HandshakeData : OnMessage(c, data)
    /\ UNCHANGED toServer
    /\ UNCHANGED <<clientVars, requestIdVars, tsVars, toolVars, counterVars, sessionVars>>

\* replit_read_file is called, in a run of several calls
PipelinedReadFile(workspaceId) ==
    /\ Len(calls) < MaxPipelined
    /\ ReadFileTool(workspaceId)
    /\ UNCHANGED <<clientVars, requestIdVars, tsVars, toolVars, counterVars, sessionVars>>

\* a message listener that takes the newest envelope first
ExtensionReceives_newestFirst(c) ==
    /\ readyState[c] = "OPEN"
    /\ toClient[c] # <<>>
    /\ toClient' = [toClient EXCEPT ![c] = SubSeq(@, 1, Len(@) - 1)]
    /\ LET message == JSONparse(toClient[c][Len(toClient[c])]) IN
       IF ~Truthy(message.action) \/ message.action \notin requestHandlers
       THEN /\ toServer' = sendResponse(c, message.id, Undefined, "Unknown action")
            /\ UNCHANGED dispatchVars
       ELSE /\ handlers' = handlers \cup {[conn |-> c, id |-> message.id]}
            /\ started' = Append(started, message.id)
            /\ UNCHANGED toServer
    /\ UNCHANGED <<connections, accepted, readyState, pendingRequests, timers, calls,
                   closed, currentWorkspaceId, regOrder>>
    /\ UNCHANGED <<bridgeWs, bridgeState, reconnectAttempts, reconnectDelay, reconnectTimer,
                   authenticating, gaveUp, authAcked, lastDelay, attemptVars>>
    /\ UNCHANGED <<requestIdVars, tsVars, toolVars, counterVars, sessionVars>>

\* ws.on('message') of the extension, up to the await of handleMessage: an
\* unknown action is answered at once, otherwise the handler is invoked
ExtensionReceives(c) ==
    /\ readyState[c] = "OPEN"
    /\ toClient[c] # <<>>
    /\ toClient' = [toClient EXCEPT ![c] = Tail(@)]
    /\ LET message == JSONparse(Head(toClient[c])) IN
       IF ~Truthy(message.action) \/ message.action \notin requestHandlers
       THEN /\ toServer' = sendResponse(c, message.id, Undefined, "Unknown action")
            /\ UNCHANGED dispatchVars
       ELSE /\ handlers' = handlers \cup {[conn |-> c, id |-> message.id]}
            /\ started' = Append(started, message.id)
            /\ UNCHANGED toServer
    /\ UNCHANGED <<connections, accepted, readyState, pendingRequests, timers, calls,
                   closed, currentWorkspaceId, regOrder>>
    /\ UNCHANGED <<bridgeWs, bridgeState, reconnectAttempts, reconnectDelay, reconnectTimer,
                   authenticating, gaveUp, authAcked, lastDelay, attemptVars>>
    /\ UNCHANGED <<requestIdVars, tsVars, toolVars, counterVars, sessionVars>>

\* handleMessage after the await: the handler has returned or thrown
ExtensionHandlerSettles(h) ==
    /\ h \in handlers
    /\ handlers' = handlers \ {h}
    /\ \/ \E v \in Values : toServer' = sendResponse(h.conn, h.id, v, Undefined)
       \/ \E e \in ErrorMessages : toServer' = sendResponse(h.conn, h.id, Undefined, e)
    /\ UNCHANGED <<connections, accepted, readyState, pendingRequests, timers, calls,
                   toClient, closed, currentWorkspaceId, regOrder>>
    /\ UNCHANGED <<bridgeWs, bridgeState, reconnectAttempts, reconnectDelay, reconnectTimer,
                   authenticating, gaveUp, authAcked, lastDelay, started, attemptVars>>
    /\ UNCHANGED <<requestIdVars, tsVars, toolVars, counterVars, sessionVars>>

\* --------------------------------------- WebSocketServer: request ids
\* the values of Math.random().toString(36).substr(2, 9)
RandomSuffixes == {"k3x9q", "0zp4m"}

\* generateRequestId: `req_${Date.now()}_${Math.random()...}`
generateRequestIdFrom(timestamp, suffix) == <<"req", timestamp, suffix>>

\* a millisecond passes
ClockTick ==
    /\ now < MaxClock
    /\ now' = now + 1
    /\ UNCHANGED <<requestIds, pendingById, promises>>
    /\ UNCHANGED <<serverVars, clientVars, tsVars, toolVars, counterVars, sessionVars>>

\* Map.set / Map.delete of pendingRequests
MapSet(map, key, value) ==
    [k \in DOMAIN map \cup {key} |-> IF k = key THEN value ELSE map[k]]

MapDelete(map, key) == [k \in DOMAIN map \ {key} |-> map[k]]

\* sendToExtension once the connection is found: generates the id and stores
\* the pending entry under it
IssueRequest ==
    /\ Len(requestIds) < MaxIssued
    /\ \E suffix \in RandomSuffixes :
          LET requestId == generateRequestIdFrom(now, suffix) IN
          /\ requestIds' = Append(requestIds, requestId)
          /\ pendingById' = MapSet(pendingById, requestId, Len(requestIds) + 1)
          /\ promises' = Append(promises, "pending")
    /\ UNCHANGED now
    /\ UNCHANGED <<serverVars, clientVars, tsVars, toolVars, counterVars, sessionVars>>

\* handleResponse for a response that carries a generated id
ResponseArrives(call) ==
    /\ call \in 1..Len(requestIds)
    /\ requestIds[call] \in DOMAIN pendingById
    /\ pendingById' = MapDelete(pendingById, requestIds[call])
    /\ promises' = [promises EXCEPT ![pendingById[requestIds[call]]] = "resolved"]
    /\ UNCHANGED <<now, requestIds>>
    /\ UNCHANGED <<serverVars, clientVars, tsVars, toolVars, counterVars, sessionVars>>

\* the timeout callback of a call: deletes the entry of its id and rejects
TimeoutFires(call) ==
    /\ call \in 1..Len(requestIds)
    /\ promises[call] = "pending"
    /\ pendingById' = MapDelete(pendingById, requestIds[call])
    /\ promises' = [promises EXCEPT ![call] = "rejected"]
    /\ UNCHANGED <<now, requestIds>>
    /\ UNCHANGED <<serverVars, clientVars, tsVars, toolVars, counterVars, sessionVars>>

\* ------------------------------------------- the client of bridge.ts
\* init(): the first connect()
TsInit ==
    /\ tsSocket = "none"
    /\ tsSocket' = "connecting"
    /\ tsLive' = tsLive + 1
    /\ UNCHANGED <<tsReconnectAttempts, tsTimers, tsSinceOpen, tsOpens>>
    /\ UNCHANGED <<serverVars, clientVars, requestIdVars, toolVars, counterVars, sessionVars>>

\* ws.on('open'): sets connected and starts authenticate()
TsOnOpen ==
    /\ tsSocket = "connecting"
    /\ tsOpens < MaxOpens
    /\ tsSocket' = "open"
    /\ tsOpens' = tsOpens + 1
    /\ tsSinceOpen' = 0
    /\ UNCHANGED <<tsReconnectAttempts, tsTimers, tsLive>>
    /\ UNCHANGED <<serverVars, clientVars, requestIdVars, toolVars, counterVars, sessionVars>>

\* ws.on('close'), of a transport that was open or that failed to connect:
\* reconnect()
TsOnClose ==
    /\ tsSocket \in {"connecting", "open"}
    /\ tsSocket' = "closed"
    /\ tsLive' = tsLive - 1
    /\ tsTimers' = IF tsReconnectAttempts < tsMaxReconnectAttempts
                   THEN tsTimers + 1
                   ELSE tsTimers
    /\ UNCHANGED <<tsReconnectAttempts, tsSinceOpen, tsOpens>>
    /\ UNCHANGED <<serverVars, clientVars, requestIdVars, toolVars, counterVars, sessionVars>>

\* the setTimeout callback of reconnect()
TsReconnectTimer ==
    /\ tsTimers > 0
    /\ tsTimers' = tsTimers - 1
    /\ tsReconnectAttempts' = tsReconnectAttempts + 1
    /\ tsSinceOpen' = tsSinceOpen + 1
    /\ tsSocket' = "connecting"
    /\ tsLive' = tsLive + 1
    /\ UNCHANGED tsOpens
    /\ UNCHANGED <<serverVars, clientVars, requestIdVars, toolVars, counterVars, sessionVars>>

\* ------------------------------------- ReplDbCounter (ReplDB helpers)
\* the calls of increment / decrement on one counter that may overlap
CounterOps == 1..MaxCounterOps

\* the amounts of increment(1), increment(2) and decrement(1)
Amounts == {1, 2, -1}

\* parseInt(extractReplDbValue(result) || '0') || 0, and 0 when the get
\* failed because the key is not there; the stored value is the integer whose
\* decimal text newValue.toString() wrote
ReadCounter(stored) == IF stored = <<>> THEN 0 ELSE stored[1]

\* increment(amount), decrement(amount) == increment(-amount): up to the
\* await of replDb.get
IncrementCalled(op, a) ==
    /\ incPc[op] = "idle"
    /\ incPc' = [incPc EXCEPT ![op] = "get"]
    /\ amount' = [amount EXCEPT ![op] = a]
    /\ UNCHANGED <<counterValue, current>>
    /\ UNCHANGED <<serverVars, clientVars, requestIdVars, tsVars, toolVars, sessionVars>>

\* replDb.get has answered: current is read, replDb.set is called and awaited
IncrementGot(op) ==
    /\ incPc[op] = "get"
    /\ current' = [current EXCEPT ![op] = ReadCounter(counterValue)]
    /\ incPc' = [incPc EXCEPT ![op] = "set"]
    /\ UNCHANGED <<counterValue, amount>>
    /\ UNCHANGED <<serverVars, clientVars, requestIdVars, tsVars, toolVars, sessionVars>>

\* replDb.set stores newValue; increment returns it
IncrementSet(op) ==
    /\ incPc[op] = "set"
    /\ counterValue' = <<current[op] + amount[op]>>
    /\ incPc' = [incPc EXCEPT ![op] = "returned"]
    /\ UNCHANGED <<amount, current>>
    /\ UNCHANGED <<serverVars, clientVars, requestIdVars, tsVars, toolVars, sessionVars>>

\* ------------------------------ ReplDbSessionManager (ReplDB helpers)
\* The sessions of one user.  getSession and deleteSession call each other
\* with the same sessionId; a frame that awaits such a call holds nothing the
\* callee's result does not determine, so the innermost frame and the depth
\* stand for the stack.  cleanupExpired is never nested: its locals are kept.
Sessions == 1..MaxSessions

SessionMethods == {"getSession", "deleteSession", "cleanupExpired"}

\* replDb.list({prefix}): the session keys that exist, up to key n
RECURSIVE KeysUpTo(_)
KeysUpTo(n) ==
    IF n = 0 THEN <<>>
    ELSE KeysUpTo(n - 1) \o (IF sessionStore[n] # "none" THEN <<n>> ELSE <<>>)

\* the frame that awaits the innermost one
SessionCaller ==
    IF sessionFn = "getSession" THEN "deleteSession"
    ELSE IF sessionCall = "cleanupExpired" /\ sessionDepth = 2 THEN "cleanupExpired"
    ELSE "getSession"

\* the innermost frame calls method fn for session id and awaits it
SessionInvoke(fn, id) ==
    /\ sessionFn' = fn
    /\ sessionId' = id
    /\ sessionPc' = "called"
    /\ session' = "none"
    /\ sessionDepth' = Min(sessionDepth + 1, MaxSessionDepth)
    /\ UNCHANGED <<sessionCall, sessionReturned>>

\* the innermost frame returns value: to the frame that awaits it, or to the
\* caller of the manager
SessionReturn(value) ==
    IF sessionDepth = 1
    THEN /\ sessionCall' = "none"
         /\ sessionFn' = "none"
         /\ sessionPc' = "none"
         /\ session' = "none"
         /\ sessionDepth' = 0
         /\ sessionReturned' = value
         /\ UNCHANGED sessionId
    ELSE /\ sessionFn' = SessionCaller
         /\ sessionPc' = "resumed"
         /\ session' = value
         /\ sessionDepth' \in IF sessionDepth = MaxSessionDepth
                              THEN {MaxSessionDepth - 1, MaxSessionDepth}
                              ELSE {sessionDepth - 1}
         /\ UNCHANGED <<sessionCall, sessionId, sessionReturned>>

\* the innermost frame moves on to pc
SessionGoto(pc) ==
    /\ sessionPc' = pc
    /\ UNCHANGED <<sessionCall, sessionId, sessionFn, session, sessionDepth, sessionReturned>>

\* createSession: stores the session and adds its id to the user's list
createSession(s) ==
    /\ sessionCall = "none"
    /\ sessionStore[s] = "none"
    /\ sessionStore' = [sessionStore EXCEPT ![s] = "valid"]
    /\ userSessions' = userSessions \cup {s}
    /\ UNCHANGED <<frameVars, cleanupVars>>
    /\ UNCHANGED <<serverVars, clientVars, requestIdVars, tsVars, toolVars, counterVars>>

\* Date.now() passes session.expiresAt
SessionExpires(s) ==
    /\ sessionStore[s] = "valid"
    /\ sessionStore' = [sessionStore EXCEPT ![s] = "expired"]
    /\ UNCHANGED <<userSessions, frameVars, cleanupVars>>
    /\ UNCHANGED <<serverVars, clientVars, requestIdVars, tsVars, toolVars, counterVars>>

\* a caller of the manager calls getSession(s), deleteSession(s) or
\* cleanupExpired() (s = 0)
SessionCalled(fn, s) ==
    /\ sessionCall = "none"
    /\ (fn = "cleanupExpired") <=> (s = 0)
    /\ sessionCall' = fn
    /\ sessionId' = s
    /\ sessionFn' = fn
    /\ sessionPc' = "called"
    /\ session' = "none"
    /\ sessionDepth' = 1
    /\ sessionReturned' = "none"
    /\ UNCHANGED <<dbVars, cleanupVars>>
    /\ UNCHANGED <<serverVars, clientVars, requestIdVars, tsVars, toolVars, counterVars>>

\* getSession, from replDb.get: null when the key is not there; an expired
\* session is handed to deleteSession; otherwise replDb.set is called with
\* the session and its new lastAccessed
getSession ==
    /\ sessionFn = "getSession"
    /\ sessionPc = "called"
    /\ IF sessionStore[sessionId] = "none" THEN SessionReturn("null")
       ELSE IF sessionStore[sessionId] = "expired"
       THEN SessionInvoke("deleteSession", sessionId)
       ELSE SessionGoto("set")
    /\ UNCHANGED <<dbVars, cleanupVars>>
    /\ UNCHANGED <<serverVars, clientVars, requestIdVars, tsVars, toolVars, counterVars>>

\* getSession, after replDb.set: the session is under its key, with the
\* expiresAt it had, and is returned
getSessionStored ==
    /\ sessionFn = "getSession"
    /\ sessionPc = "set"
    /\ sessionStore' = [sessionStore EXCEPT ![sessionId] = IF @ = "none" THEN "valid" ELSE @]
    /\ SessionReturn("session")
    /\ UNCHANGED <<userSessions, cleanupVars>>
    /\ UNCHANGED <<serverVars, clientVars, requestIdVars, tsVars, toolVars, counterVars>>

\* deleteSession: const session = await this.getSession(sessionId)
deleteSession ==
    /\ sessionFn = "deleteSession"
    /\ sessionPc = "called"
    /\ SessionInvoke("getSession", sessionId)
    /\ UNCHANGED <<dbVars, cleanupVars>>
    /\ UNCHANGED <<serverVars, clientVars, requestIdVars, tsVars, toolVars, counterVars>>

\* the call a frame awaited has returned.  deleteSession, after getSession:
\* with a session the user's list is read, without one replDb.del is called.
\* getSession, after deleteSession: return null.  cleanupExpired, after
\* deleteSession: cleaned++ and the next key.
SessionResumed ==
    /\ sessionPc = "resumed"
    /\ IF sessionFn = "deleteSession"
       THEN /\ SessionGoto(IF session = "session" THEN "filter" ELSE "del")
            /\ UNCHANGED cleanupVars
       ELSE IF sessionFn = "getSession"
       THEN /\ SessionReturn("null")
            /\ UNCHANGED cleanupVars
       ELSE /\ cleaned' = cleaned + 1
            /\ cleanupKeys' = Tail(cleanupKeys)
            /\ SessionGoto("get")
    /\ UNCHANGED dbVars
    /\ UNCHANGED <<serverVars, clientVars, requestIdVars, tsVars, toolVars, counterVars>>

\* deleteSession: the list without the session id is stored
deleteSessionFiltered ==
    /\ sessionFn = "deleteSession"
    /\ sessionPc = "filter"
    /\ userSessions' = userSessions \ {sessionId}
    /\ SessionGoto("del")
    /\ UNCHANGED <<sessionStore, cleanupVars>>
    /\ UNCHANGED <<serverVars, clientVars, requestIdVars, tsVars, toolVars, counterVars>>

\* deleteSession: replDb.del of the session key
deleteSessionDeleted ==
    /\ sessionFn = "deleteSession"
    /\ sessionPc = "del"
    /\ sessionStore' = [sessionStore EXCEPT ![sessionId] = "none"]
    /\ SessionReturn("void")
    /\ UNCHANGED <<userSessions, cleanupVars>>
    /\ UNCHANGED <<serverVars, clientVars, requestIdVars, tsVars, toolVars, counterVars>>

\* cleanupExpired, from replDb.list: the keys with the session prefix
cleanupExpired ==
    /\ sessionFn = "cleanupExpired"
    /\ sessionPc = "called"
    /\ cleanupKeys' = KeysUpTo(MaxSessions)
    /\ cleaned' = 0
    /\ SessionGoto("get")
    /\ UNCHANGED dbVars
    /\ UNCHANGED <<serverVars, clientVars, requestIdVars, tsVars, toolVars, counterVars>>

\* cleanupExpired, the loop: return cleaned after the last key; otherwise
\* replDb.get of the key, and an expired session is handed to deleteSession
cleanupExpiredGot ==
    /\ sessionFn = "cleanupExpired"
    /\ sessionPc = "get"
    /\ IF cleanupKeys = <<>>
       THEN /\ SessionReturn("cleaned")
            /\ UNCHANGED cleanupVars
       ELSE IF sessionStore[Head(cleanupKeys)] = "expired"
       THEN /\ SessionInvoke("deleteSession", Head(cleanupKeys))
            /\ UNCHANGED cleanupVars
       ELSE /\ cleanupKeys' = Tail(cleanupKeys)
            /\ UNCHANGED <<cleaned, frameVars>>
    /\ UNCHANGED dbVars
    /\ UNCHANGED <<serverVars, clientVars, requestIdVars, tsVars, toolVars, counterVars>>

\* a step of the call that runs: an await of it is answered
SessionStep ==
    \/ getSession
    \/ getSessionStored
    \/ deleteSession
    \/ SessionResumed
    \/ deleteSessionFiltered
    \/ deleteSessionDeleted
    \/ cleanupExpired
    \/ cleanupExpiredGot

\* ------------------------------------------------------- specification
ServerInit ==
    /\ connections = <<>>
    /\ accepted = 0
    /\ readyState = [c \in ConnIds |-> "NONE"]
    /\ pendingRequests = {}
    /\ timers = {}
    /\ calls = <<>>
    /\ toClient = [c \in ConnIds |-> <<>>]
    /\ toServer = [c \in ConnIds |-> <<>>]
    /\ closed = FALSE
    /\ currentWorkspaceId = Undefined
    /\ regOrder = <<>>

ClientInitial ==
    /\ bridgeWs = 0
    /\ bridgeState = "idle"
    /\ reconnectAttempts = 0
    /\ reconnectDelay = BaseReconnectDelay
    /\ reconnectTimer = 0
    /\ authenticating = 0
    /\ gaveUp = FALSE
    /\ authAcked = FALSE
    /\ lastDelay = 0
    /\ liveSockets = 0
    /\ armedTimers = 0
    /\ handlers = {}
    /\ started = <<>>

RequestIdInit ==
    /\ now = 0
    /\ requestIds = <<>>
    /\ pendingById = <<>>
    /\ promises = <<>>

TsBridgeInitial ==
    /\ tsSocket = "none"
    /\ tsReconnectAttempts = 0
    /\ tsTimers = 0
    /\ tsSinceOpen = 0
    /\ tsOpens = 0
    /\ tsLive = 0

ToolInit ==
    /\ connectCall = 0
    /\ workspaceBefore = Undefined

CounterInit ==
    /\ counterValue = <<>>
    /\ incPc = [op \in CounterOps |-> "idle"]
    /\ amount = [op \in CounterOps |-> 0]
    /\ current = [op \in CounterOps |-> 0]

SessionInit ==
    /\ sessionStore = [s \in Sessions |-> "none"]
    /\ userSessions = {}
    /\ sessionCall = "none"
    /\ sessionId = 0
    /\ sessionFn = "none"
    /\ sessionPc = "none"
    /\ session = "none"
    /\ sessionDepth = 0
    /\ sessionReturned = "none"
    /\ cleanupKeys = <<>>
    /\ cleaned = 0

Init ==
    /\ ServerInit /\ ClientInitial /\ RequestIdInit /\ TsBridgeInitial /\ ToolInit
    /\ CounterInit /\ SessionInit

\* the server with any peers
Next ==
    \/ handleConnection /\ UNCHANGED <<clientVars, requestIdVars, tsVars, toolVars, counterVars, sessionVars>>
    \/ \E c \in ConnIds : OnExtensionData(c) /\ UNCHANGED <<clientVars, requestIdVars, tsVars, toolVars, counterVars, sessionVars>>
    \/ \E c \in ConnIds : OnPeerData(c) /\ UNCHANGED <<clientVars, requestIdVars, tsVars, toolVars, counterVars, sessionVars>>
    \/ \E c \in ConnIds : OnPong(c) /\ UNCHANGED <<clientVars, requestIdVars, tsVars, toolVars, counterVars, sessionVars>>
    \/ \E c \in ConnIds : OnCloseFrame(c) /\ UNCHANGED <<clientVars, requestIdVars, tsVars, toolVars, counterVars, sessionVars>>
    \/ \E c \in ConnIds : OnClose(c) /\ UNCHANGED <<clientVars, requestIdVars, tsVars, toolVars, counterVars, sessionVars>>
    \/ \E c \in ConnIds : OnError(c) /\ UNCHANGED <<clientVars, requestIdVars, tsVars, toolVars, counterVars, sessionVars>>
    \/ startCleanupInterval /\ UNCHANGED <<clientVars, requestIdVars, tsVars, toolVars, counterVars, sessionVars>>
    \/ \E k \in CallIds : RequestTimeout(k) /\ UNCHANGED <<clientVars, requestIdVars, tsVars, toolVars, counterVars, sessionVars>>
    \/ close /\ UNCHANGED <<clientVars, requestIdVars, tsVars, toolVars, counterVars, sessionVars>>
    \/ \E w \in Workspaces \cup {Undefined} : ReplitConnect(w) /\ UNCHANGED <<clientVars, requestIdVars, tsVars, counterVars, sessionVars>>
    \/ \E w \in Workspaces \cup {Undefined} : ReplitReadFile(w) /\ UNCHANGED <<clientVars, requestIdVars, tsVars, toolVars, counterVars, sessionVars>>
    \/ \E c \in ConnIds : ExtensionHandleMessage(c) /\ UNCHANGED <<clientVars, requestIdVars, tsVars, toolVars, counterVars, sessionVars>>

Spec == Init /\ [][Next]_vars

\* the server with the client of main.js as its peer
BridgeNext ==
    \/ ClientInit /\ UNCHANGED <<dispatchVars, requestIdVars, tsVars, toolVars, counterVars, sessionVars>>
    \/ ServerAccept /\ UNCHANGED <<dispatchVars, requestIdVars, tsVars, toolVars, counterVars, sessionVars>>
    \/ ClientOnOpen /\ UNCHANGED <<dispatchVars, requestIdVars, tsVars, toolVars, counterVars, sessionVars>>
    \/ ClientAuthenticate /\ UNCHANGED <<dispatchVars, requestIdVars, tsVars, toolVars, counterVars, sessionVars>>
    \/ ClientOnMessage /\ UNCHANGED <<dispatchVars, requestIdVars, tsVars, toolVars, counterVars, sessionVars>>
    \/ ClientOnClose /\ UNCHANGED <<dispatchVars, requestIdVars, tsVars, toolVars, counterVars, sessionVars>>
    \/ ReconnectTimer /\ UNCHANGED <<dispatchVars, requestIdVars, tsVars, toolVars, counterVars, sessionVars>>
    \/ \E c \in ConnIds : OnClientData(c)
    \/ \E c \in ConnIds : OnPong(c) /\ UNCHANGED <<clientVars, requestIdVars, tsVars, toolVars, counterVars, sessionVars>>
    \/ \E c \in ConnIds : OnCloseFrame(c) /\ UNCHANGED <<clientVars, requestIdVars, tsVars, toolVars, counterVars, sessionVars>>
    \/ \E c \in ConnIds : OnClose(c) /\ UNCHANGED <<clientVars, requestIdVars, tsVars, toolVars, counterVars, sessionVars>>
    \/ \E c \in ConnIds : OnError(c) /\ UNCHANGED <<clientVars, requestIdVars, tsVars, toolVars, counterVars, sessionVars>>
    \/ startCleanupInterval /\ UNCHANGED <<clientVars, requestIdVars, tsVars, toolVars, counterVars, sessionVars>>
    \/ \E k \in CallIds : RequestTimeout(k) /\ UNCHANGED <<clientVars, requestIdVars, tsVars, toolVars, counterVars, sessionVars>>
    \/ close /\ UNCHANGED <<clientVars, requestIdVars, tsVars, toolVars, counterVars, sessionVars>>
    \/ \E w \in Workspaces \cup {Undefined} : ReplitConnect(w) /\ UNCHANGED <<clientVars, requestIdVars, tsVars, counterVars, sessionVars>>
    \/ \E w \in Workspaces \cup {Undefined} : ReplitReadFile(w) /\ UNCHANGED <<clientVars, requestIdVars, tsVars, toolVars, counterVars, sessionVars>>

\* messages received on an open transport are handed to the listener
BridgeSpec ==
    Init /\ [][BridgeNext]_vars /\ WF_vars(\E c \in ConnIds : OnClientData(c))

\* the server with extensions whose handlers take their time, and several
\* calls in flight
PipelineNext ==
    \/ handleConnection /\ UNCHANGED <<clientVars, requestIdVars, tsVars, toolVars, counterVars, sessionVars>>
    \/ \E c \in ConnIds : OnHandshakeData(c)
    \/ \E w \in Workspaces : PipelinedReadFile(w)
    \/ \E c \in ConnIds : ExtensionReceives(c)
    \/ \E h \in handlers : ExtensionHandlerSettles(h)
    \/ \E c \in ConnIds : OnExtensionData(c) /\ UNCHANGED <<clientVars, requestIdVars, tsVars, toolVars, counterVars, sessionVars>>
    \/ \E c \in ConnIds : OnClose(c) /\ UNCHANGED <<clientVars, requestIdVars, tsVars, toolVars, counterVars, sessionVars>>
    \/ \E k \in 1..MaxPipelined : RequestTimeout(k) /\ UNCHANGED <<clientVars, requestIdVars, tsVars, toolVars, counterVars, sessionVars>>

PipelineSpec == Init /\ [][PipelineNext]_vars

\* the ids of the calls of sendToExtension, as generateRequestId makes them
RequestIdNext ==
    \/ ClockTick
    \/ IssueRequest
    \/ \E call \in 1..MaxIssued : ResponseArrives(call)
    \/ \E call \in 1..MaxIssued : TimeoutFires(call)

RequestIdSpec == Init /\ [][RequestIdNext]_vars

\* the client of bridge.ts and the transports it opens
TsBridgeNext ==
    \/ TsInit
    \/ TsOnOpen
    \/ TsOnClose
    \/ TsReconnectTimer

TsBridgeSpec == Init /\ [][TsBridgeNext]_vars

\* the two clients and the transports they open, the server only accepting
\* and closing them
ReconnectNext ==
    \/ ClientInit /\ UNCHANGED <<dispatchVars, requestIdVars, tsVars, toolVars, counterVars, sessionVars>>
    \/ ServerAccept /\ UNCHANGED <<dispatchVars, requestIdVars, tsVars, toolVars, counterVars, sessionVars>>
    \/ ClientOnOpen /\ UNCHANGED <<dispatchVars, requestIdVars, tsVars, toolVars, counterVars, sessionVars>>
    \/ ClientAuthenticate /\ UNCHANGED <<dispatchVars, requestIdVars, tsVars, toolVars, counterVars, sessionVars>>
    \/ ClientOnClose /\ UNCHANGED <<dispatchVars, requestIdVars, tsVars, toolVars, counterVars, sessionVars>>
    \/ ReconnectTimer /\ UNCHANGED <<dispatchVars, requestIdVars, tsVars, toolVars, counterVars, sessionVars>>
    \/ \E c \in ConnIds : OnClose(c) /\ UNCHANGED <<clientVars, requestIdVars, tsVars, toolVars, counterVars, sessionVars>>
    \/ TsInit
    \/ TsOnOpen
    \/ TsOnClose
    \/ TsReconnectTimer

ReconnectSpec == Init /\ [][ReconnectNext]_vars

\* calls of increment and decrement on one counter, their awaits interleaved
CounterNext ==
    \/ \E op \in CounterOps : \E a \in Amounts : IncrementCalled(op, a)
    \/ \E op \in CounterOps : IncrementGot(op)
    \/ \E op \in CounterOps : IncrementSet(op)

CounterSpec == Init /\ [][CounterNext]_vars

\* the session manager with one session; no await of a running call stays
\* unanswered
SessionNext ==
    \/ \E s \in Sessions : createSession(s)
    \/ \E s \in Sessions : SessionExpires(s)
    \/ \E fn \in SessionMethods : \E s \in Sessions \cup {0} : SessionCalled(fn, s)
    \/ getSession
    \/ getSessionStored
    \/ deleteSession
    \/ SessionResumed
    \/ deleteSessionFiltered
    \/ deleteSessionDeleted
    \/ cleanupExpired
    \/ cleanupExpiredGot

SessionSpec == Init /\ [][SessionNext]_vars /\ WF_vars(SessionStep)

\* ------------------------------------------------------------- claims

\* C1 (at-most-one settlement): the promise of every call takes at most one
\* settlement (a response, the timer, an eviction), no timer stays armed for
\* a settled call, and once settled its outcome never changes.
C1_AtMostOneSettlement ==
    /\ [](\A k \in 1..Len(calls) :
            /\ calls[k].attempts <= 1
            /\ (calls[k].state = "pending") <=> (calls[k].attempts = 0)
            /\ calls[k].state # "pending" => k \notin timers)
    /\ [][\A k \in 1..Len(calls) :
            calls[k].state # "pending" =>
                /\ calls'[k].state = calls[k].state
                /\ calls'[k].value = calls[k].value
                /\ calls'[k].cause = calls[k].cause]_vars

\* a call was settled by its timer and its response is still on the way
C1_LateResponse ==
    \E k \in 1..Len(calls) : \E c \in ConnIds :
        /\ calls[k].cause = "timeout"
        /\ toServer[c] # <<>>
        /\ Head(toServer[c]).id = k

\* C2 (eviction on removal): in every step that removes a connection record
\* from the registry, every call sent to that connection and still pending is
\* rejected with a connection error and leaves the pending-call table.
C2_EvictionOnRemoval ==
    [][\A c \in ConnIdsOf(connections) \ ConnIdsOf(connections') :
        \A k \in 1..Len(calls) :
            (calls[k].target = c /\ calls[k].state = "pending") =>
                /\ calls'[k].state = "rejected"
                /\ calls'[k].value \in {"Connection closed", "Connection error",
                                       "Connection terminated"}
                /\ k \notin pendingRequests']_vars

\* the only connection ever accepted was removed while a call to it was pending
C2_Evicted ==
    /\ accepted = 1
    /\ connections = <<>>
    /\ \E k \in 1..Len(calls) : calls[k].target = 1 /\ calls[k].cause = "eviction"

\* C3 (timeout correctness): a call that was settled without a response,
\* while its connection is still registered and the server is running, was
\* rejected with the timeout error and has left the pending-call table.
C3_TimeoutCorrectness ==
    \A k \in 1..Len(calls) :
        (/\ calls[k].target # 0
         /\ HasConn(calls[k].target)
         /\ ~closed
         /\ calls[k].state # "pending"
         /\ calls[k].cause # "response") =>
            /\ calls[k].cause = "timeout"
            /\ calls[k].value = "Request timeout"
            /\ k \notin pendingRequests

\* C4 (unreachable endpoint): a call for a workspace that no authenticated
\* connection is bound to is rejected in the step that issues it, adds no
\* entry to the pending-call table, arms no timer and sends no envelope.
C4_UnreachableEndpoint ==
    [][\A w0 \in Workspaces \cup {Undefined} :
        LET w == IF Truthy(w0) THEN w0 ELSE currentWorkspaceId IN
        (/\ Truthy(w)
         /\ \A i \in 1..Len(connections) :
                ~(connections[i].workspaceId = w /\ connections[i].isAuthenticated)
         /\ ReplitReadFile(w0)) =>
            /\ Len(calls') = Len(calls) + 1
            /\ calls'[Len(calls')].state = "rejected"
            /\ calls'[Len(calls')].attempts = 1
            /\ pendingRequests' = pendingRequests
            /\ timers' = timers
            /\ toClient' = toClient]_vars

\* a call failed for lack of an endpoint while an authenticated connection,
\* bound to another workspace or to none, was registered
C4_Unreachable ==
    /\ \E k \in 1..Len(calls) : calls[k].target = 0 /\ calls[k].state = "rejected"
    /\ \E i \in 1..Len(connections) : connections[i].isAuthenticated
    /\ pendingRequests = {}
    /\ \A c \in ConnIds : toClient[c] = <<>>

\* C5 (result pass-through): when the response of the extension's handler,
\* carrying result v, arrives on the connection the call was sent to, with the
\* connection still open, the timer not expired and no response received for
\* the call before, the caller's promise is resolved with v.
C5_ResultPassThrough ==
    [][\A c \in ConnIds :
        (/\ toServer[c] # <<>>
         /\ toServer'[c] = Tail(toServer[c])
         /\ c \in ConnIdsOf(connections')
         /\ readyState'[c] = "OPEN"
         /\ "result" \in DOMAIN Head(toServer[c])
         /\ calls[Head(toServer[c]).id].target = c
         /\ calls[Head(toServer[c]).id].cause \notin {"timeout", "response"}) =>
            /\ calls'[Head(toServer[c]).id].state = "resolved"
            /\ calls'[Head(toServer[c]).id].value = Head(toServer[c]).result]_vars

\* C6 (remote failure is an error): when the extension's response to a
\* pending call carries an error, whatever its message, the caller's promise
\* is rejected.
C6_RemoteErrorRejects ==
    [][\A c \in ConnIds :
        (/\ toServer[c] # <<>>
         /\ toServer'[c] = Tail(toServer[c])
         /\ c \in ConnIdsOf(connections')
         /\ readyState'[c] = "OPEN"
         /\ "error" \in DOMAIN Head(toServer[c])
         /\ Head(toServer[c]).id \in pendingRequests) =>
            calls'[Head(toServer[c]).id].state = "rejected"]_vars

\* C7 (selection determinism): replit_connect without a workspace id, with
\* every registered endpoint authenticated and open, selects the workspace of
\* the endpoint that registered last.
C7_SelectionDeterminism ==
    [][(/\ regOrder # <<>>
        /\ \A i \in 1..Len(regOrder) : readyState[regOrder[i]] = "OPEN"
        /\ ReplitConnect(Undefined)) =>
            currentWorkspaceId' = GetConn(regOrder[Len(regOrder)]).workspaceId]_vars

\* C8 (most recent binding wins): a call for a workspace that several open,
\* authenticated records are bound to is sent over the one bound last.
C8_MostRecentBindingWins ==
    [][\A w \in Workspaces :
        LET bound == {i \in 1..Len(regOrder) : GetConn(regOrder[i]).workspaceId = w} IN
        (/\ bound # {}
         /\ \A i \in bound : readyState[regOrder[i]] = "OPEN"
         /\ ReplitReadFile(w)) =>
            calls'[Len(calls')].target =
                regOrder[CHOOSE i \in bound : \A j \in bound : j <= i]]_vars

\* C9 (register_workspace before authentication): on an open connection that
\* is not authenticated, every register_workspace envelope is answered with
\* the one error 'Not authenticated' and changes no record; a record that is
\* not authenticated has an empty workspaceId, is the target of no workspace
\* id and is not listed among the active workspaces.
C9_RegisterUnauthenticated ==
    \A i \in 1..Len(connections) :
        ~connections[i].isAuthenticated =>
            /\ connections[i].workspaceId = EmptyString
            /\ \A w \in Workspaces : FindConnection(w) # connections[i].id
            /\ Len(getActiveWorkspaces) <=
                   Cardinality({j \in 1..Len(connections) : connections[j].isAuthenticated})
            /\ readyState[connections[i].id] = "OPEN" =>
                 \A id \in {NoId, PeerMsgId} : \A w \in Workspaces \cup {Undefined} :
                    LET after == MessageListener(connections[i].id,
                            JSONstringify([BridgeMessage(id, "register_workspace")
                                              EXCEPT !.paramsWorkspaceId = w]))
                    IN /\ after.sent = <<[to |-> connections[i].id, data |-> JSONstringify(
                            [BridgeMessage(IF id # NoId THEN id ELSE GeneratedId, "error")
                                EXCEPT !.error = "Not authenticated"])]>>
                       /\ after.connections = connections
                       /\ after.regOrder = regOrder

\* a call found no endpoint while an open connection that never authenticated
\* was registered
C9_UnauthenticatedNotTargeted ==
    /\ \E i \in 1..Len(connections) :
          ~connections[i].isAuthenticated /\ readyState[connections[i].id] = "OPEN"
    /\ \E k \in 1..Len(calls) : calls[k].cause = "unreachable"
    /\ getActiveWorkspaces = <<>>

\* C10 (authentication failure closes the connection): an authenticate
\* envelope with no token or with a token the verification rejects is
\* answered with an error, and the record of the connection is removed from
\* the registry.
C10_AuthFailureCloses ==
    \A i \in 1..Len(connections) :
        readyState[connections[i].id] = "OPEN" =>
            \A id \in {NoId, PeerMsgId} : \A t \in {Undefined, "bad"} :
                LET after == MessageListener(connections[i].id,
                        JSONstringify([BridgeMessage(id, "authenticate") EXCEPT !.token = t]))
                IN /\ Len(after.sent) = 1
                   /\ after.sent[1].data.action = "error"
                   /\ connections[i].id \notin ConnIdsOf(after.connections)

\* C11 (connection lifecycle): a record is created unauthenticated and
\* unbound; it becomes authenticated only in a step that receives, on that
\* connection, an authenticate envelope whose token the verification accepts;
\* a record with a non-empty workspaceId is authenticated.
C11_LifecycleInvariant ==
    /\ [](\A i \in 1..Len(connections) :
            /\ Truthy(connections[i].workspaceId) => connections[i].isAuthenticated
            /\ readyState[connections[i].id] = "OPEN" =>
                 \A data \in PeerData \cup {toServer[c][1] : c \in {d \in ConnIds : toServer[d] # <<>>}} :
                    LET after == MessageListener(connections[i].id, data).connections IN
                    \A j \in 1..Len(after) :
                        (after[j].isAuthenticated /\ ~connections[j].isAuthenticated) =>
                            /\ j = i
                            /\ CanParse(data)
                            /\ JSONparse(data).action = "authenticate"
                            /\ jwtVerify(JSONparse(data).token))
    /\ [][\A j \in 1..Len(connections') :
            (/\ connections'[j].isAuthenticated
             /\ ~\E i \in 1..Len(connections) :
                    /\ connections[i].id = connections'[j].id
                    /\ connections[i].isAuthenticated) =>
                /\ connections'[j].id \in ConnIdsOf(connections)
                /\ readyState[connections'[j].id] = "OPEN"
                /\ \E data \in PeerData :
                    MessageListener(connections'[j].id, data).connections = connections']_vars

\* an authenticated record bound to a workspace, next to one that is neither
C11_BoundAndUnbound ==
    \E i, j \in 1..Len(connections) :
        /\ connections[i].isAuthenticated
        /\ Truthy(connections[i].workspaceId)
        /\ ~connections[j].isAuthenticated

\* C12 (heartbeat tick rule): in a cleanup tick, every record whose
\* now - lastPing exceeds 60 s is removed from the registry and its transport
\* is no longer open; every other record whose transport is open is sent a
\* ping, stays registered and stays open.
C12_HeartbeatTick ==
    [][startCleanupInterval =>
        \A id \in ConnIdsOf(connections) :
            IF GetConn(id).sinceLastPing + HeartbeatInterval > StaleThreshold
            THEN /\ id \notin ConnIdsOf(connections')
                 /\ readyState'[id] # "OPEN"
            ELSE readyState[id] = "OPEN" =>
                    /\ id \in pingedConnections
                    /\ id \in ConnIdsOf(connections')
                    /\ readyState'[id] = "OPEN"]_vars

\* a tick removed a dead connection, rejecting a call, and another record,
\* pinged in an earlier tick, is registered and open
C12_TickedAndTerminated ==
    /\ \E k \in 1..Len(calls) : calls[k].value = "Connection terminated"
    /\ \E i \in 1..Len(connections) :
          /\ connections[i].sinceLastPing > 0
          /\ readyState[connections[i].id] = "OPEN"

\* C13 (stale connection eviction): no record stays registered beyond two
\* ticks without a pong; the third tick after the last pong removes it, and
\* in that tick every call pending on it is rejected with the connection
\* error and leaves the pending-call table.
C13_StaleEviction ==
    /\ [](\A i \in 1..Len(connections) : connections[i].sinceLastPing <= StaleThreshold)
    /\ [][startCleanupInterval =>
            \A id \in ConnIdsOf(connections) :
                GetConn(id).sinceLastPing >= 2 * HeartbeatInterval =>
                    /\ id \notin ConnIdsOf(connections')
                    /\ \A k \in 1..Len(calls) :
                        (calls[k].target = id /\ calls[k].state = "pending") =>
                            /\ calls'[k].state = "rejected"
                            /\ calls'[k].value = "Connection terminated"
                            /\ k \notin pendingRequests']_vars

\* the one connection accepted was removed by a tick while a call on it was
\* pending
C13_TerminatedWithCall ==
    /\ accepted = 1
    /\ connections = <<>>
    /\ readyState[1] = "CLOSING"
    /\ \E k \in 1..Len(calls) :
          calls[k].target = 1 /\ calls[k].value = "Connection terminated"

\* C14 (ping is answered): a ping envelope received on a registered, open
\* connection, authenticated or not, whatever its id, makes the server send
\* exactly one envelope: a pong with the same id, on that connection.
C14_PingAnswered ==
    \A i \in 1..Len(connections) :
        readyState[connections[i].id] = "OPEN" =>
            \A id \in {NoId, PeerMsgId} \cup CallIds :
                MessageListener(connections[i].id,
                                JSONstringify(BridgeMessage(id, "ping"))).sent
                    = <<[to |-> connections[i].id,
                         data |-> JSONstringify(BridgeMessage(id, "pong"))]>>

\* two open connections, one authenticated and one not, with a call pending
C14_OpenConnections ==
    /\ pendingRequests # {}
    /\ \E i, j \in 1..Len(connections) :
          /\ connections[i].isAuthenticated
          /\ ~connections[j].isAuthenticated
          /\ readyState[connections[i].id] = "OPEN"
          /\ readyState[connections[j].id] = "OPEN"

\* C15 (malformed envelopes): data that cannot be parsed leaves the registry,
\* with the authentication and binding of every record, and the pending-call
\* table, its timers and its promises as they were.
C15_MalformedRecovered ==
    \A i \in 1..Len(connections) :
        readyState[connections[i].id] = "OPEN" =>
            LET after == MessageListener(connections[i].id, Garbage) IN
            /\ after.connections = connections
            /\ after.regOrder = regOrder
            /\ after.pendingRequests = pendingRequests
            /\ after.timers = timers
            /\ after.calls = calls

\* an open, authenticated, bound connection with a call pending on it
C15_BoundWithPendingCall ==
    \E k \in pendingRequests :
        /\ HasConn(calls[k].target)
        /\ readyState[calls[k].target] = "OPEN"
        /\ Truthy(GetConn(calls[k].target).workspaceId)

\* C16: the delay of every reconnect timer of the client is at most the cap
\* of 30000 ms and never below the delay of the timer before it; the first
\* timer after the start or after a successful open waits the base delay of
\* 2000 ms, and each later one of the same run waits twice the delay of the
\* one before it, capped at 30000 ms.
C16_ReconnectBackoff ==
    /\ [](reconnectTimer # 0 =>
            /\ reconnectTimer >= BaseReconnectDelay
            /\ reconnectTimer <= MaxReconnectDelay)
    /\ [][reconnectTimer = 0 /\ reconnectTimer' # 0 =>
            /\ reconnectTimer' >= lastDelay
            /\ reconnectTimer' = IF lastDelay = 0
                                 THEN BaseReconnectDelay
                                 ELSE Min(2 * lastDelay, MaxReconnectDelay)]_vars
    /\ [][bridgeState = "connecting" /\ bridgeState' = "open" =>
            /\ reconnectDelay' = BaseReconnectDelay
            /\ lastDelay' = 0]_vars

\* the second transport was opened after a failed run (which had raised the
\* attempt count and the delay), went down, and the timer waits the base delay
C16_BaseAgainAfterReopen ==
    /\ bridgeWs = 2
    /\ bridgeState = "closed"
    /\ reconnectAttempts = 0
    /\ reconnectTimer = BaseReconnectDelay

\* C17: when the client's transport closes after maxReconnectAttempts (10)
\* reconnect attempts in a row, the client gives up: it reports the loss to its
\* host and arms no timer; once it has given up no reconnect timer is pending,
\* its transport stays closed and it never makes another connection attempt.
C17_GiveUpTerminal ==
    /\ [](gaveUp =>
            /\ reconnectTimer = 0
            /\ bridgeState = "closed"
            /\ reconnectAttempts = maxReconnectAttempts)
    /\ [][/\ bridgeState # "closed"
          /\ bridgeState' = "closed"
          /\ reconnectAttempts = maxReconnectAttempts
          => gaveUp' /\ reconnectTimer' = 0]_vars
    /\ [][gaveUp => UNCHANGED <<bridgeWs, bridgeState, reconnectAttempts, reconnectDelay,
                                reconnectTimer, gaveUp>>]_vars

\* the client has given up after ten reconnect attempts, the server running
C17_GaveUp ==
    /\ gaveUp
    /\ reconnectAttempts = maxReconnectAttempts
    /\ ~closed

\* C18: whenever the client sends a register_workspace envelope, it has
\* received the server's 'authenticated' envelope on that transport before.
C18_RegisterOnlyAfterAck ==
    [][\A c \in ConnIds :
          (/\ Len(toServer'[c]) > Len(toServer[c])
           /\ \E i \in (Len(toServer[c]) + 1)..Len(toServer'[c]) :
                 JSONparse(toServer'[c][i]).action = "register_workspace")
          => authAcked]_vars

C20_RemoteCallDispatch ==
    [][\A c \in ConnIds :
          (/\ readyState[c] = "OPEN"
           /\ readyState'[c] = "OPEN"
           /\ toClient[c] # <<>>
           /\ toClient'[c] = Tail(toClient[c]))
          => LET message == JSONparse(Head(toClient[c])) IN
             /\ Len(toServer'[c]) = Len(toServer[c]) + 1
             /\ SubSeq(toServer'[c], 1, Len(toServer[c])) = toServer[c]
             /\ LET sent == toServer'[c][Len(toServer'[c])]
                    response == JSONparse(sent) IN
                /\ response.action = "response"
                /\ response.id = message.id
                /\ ("id" \in DOMAIN sent) = (message.id # NoId)
                /\ IF message.action \notin requestHandlers
                   THEN /\ response.error = "Unknown action"
                        /\ "result" \notin DOMAIN sent
                   ELSE \/ /\ response.result \in Values
                           /\ "error" \notin DOMAIN sent
                        \/ /\ response.error \in ErrorMessages
                           /\ "result" \notin DOMAIN sent
             /\ bridgeState' = bridgeState
             /\ bridgeWs' = bridgeWs
             /\ \A d \in ConnIds \ {c} : toServer'[d] = toServer[d]]_vars

\* the client answered an envelope without handler with 'Unknown action', then
\* a call whose handler threw with that error, and a further envelope waits
C20_ErrorsAnsweredAndGoingOn ==
    \E c \in ConnIds :
        /\ bridgeWs = c
        /\ bridgeState = "open"
        /\ readyState[c] = "OPEN"
        /\ toClient[c] # <<>>
        /\ \E i, j \in 1..Len(toServer[c]) :
              /\ i < j
              /\ JSONparse(toServer[c][i]).error = "Unknown action"
              /\ JSONparse(toServer[c][j]).error = "boom"
              /\ JSONparse(toServer[c][j]).id \in CallIds

\* C22: a response envelope, with a result or with an error, whose id is not a
\* key of the pending-call table (no id, an id never issued, or the id of a call
\* already answered, timed out or evicted) changes nothing when it arrives on a
\* registered open connection: the table, the timers, the promises and the
\* records are as before and nothing is sent.
C22_LateResponseDropped ==
    \A i \in 1..Len(connections) :
        readyState[connections[i].id] = "OPEN" =>
            \A id \in ({NoId, PeerMsgId} \cup CallIds) \ pendingRequests :
                /\ \A v \in Values :
                      MessageListener(connections[i].id,
                          JSONstringify([BridgeMessage(id, "response")
                                            EXCEPT !.result = v])) = Handling
                /\ \A e \in ErrorMessages :
                      MessageListener(connections[i].id,
                          JSONstringify([BridgeMessage(id, "response")
                                            EXCEPT !.error = e])) = Handling

\* the response of the extension is on its way to the server, on an open
\* connection, for a call that has timed out already
C22_ResponseAfterTimeout ==
    \E c \in ConnIds :
        /\ HasConn(c)
        /\ readyState[c] = "OPEN"
        /\ ~closed
        /\ toServer[c] # <<>>
        /\ Head(toServer[c]).id \in 1..Len(calls)
        /\ Head(toServer[c]).id \notin pendingRequests
        /\ calls[Head(toServer[c]).id].cause = "timeout"

\* C24: when a tool calls sendToExtension for a workspace id and no
\* authenticated record bound to that id has an open transport, the call is
\* rejected in that step as unreachable, and no entry of the pending-call table
\* and no timer is created for it.
C24_LiveRecordRequired ==
    [][\A w \in Workspaces :
          (/\ ReplitReadFile(w)
           /\ \A i \in 1..Len(connections) :
                 (connections[i].isAuthenticated /\ connections[i].workspaceId = w)
                 => readyState[connections[i].id] # "OPEN")
          => /\ calls'[Len(calls')].state = "rejected"
             /\ calls'[Len(calls')].cause = "unreachable"
             /\ pendingRequests' = pendingRequests
             /\ timers' = timers]_vars

\* C25: whenever some authenticated record bound to a workspace has an open
\* transport, a tool call that names no workspace id has a target workspace,
\* and sendToExtension for it selects the most recently registered of those
\* records.
C25_UnaddressedUsesPolicy ==
    LET live == SelectSeq(regOrder, LAMBDA id :
                    /\ HasConn(id)
                    /\ GetConn(id).isAuthenticated
                    /\ Truthy(GetConn(id).workspaceId)
                    /\ readyState[id] = "OPEN")
    IN (~closed /\ live # <<>>) =>
            /\ Truthy(TargetWorkspace(Undefined))
            /\ FindConnection(TargetWorkspace(Undefined)) = live[Len(live)]

\* C26 as stated: when the client is about to send while its transport is not
\* open, the sender gets a NotConnected error.
C26_NotConnectedError ==
    (/\ authenticating > 0
     /\ ~(bridgeState = "open" /\ bridgeWs # 0 /\ readyState[bridgeWs] = "OPEN"))
    => sendMessageOutcome = "NotConnected"

\* C26 (amended): a message the client tries to send while its transport is not
\* open is dropped, the sender being told nothing: the send leaves every queue
\* as it is, whether it is a handshake envelope or a response; and an envelope
\* enters the queue of a transport only in the step that sends it on the open
\* transport (authenticate() or the handling of an inbound envelope), so a
\* dropped message is not sent later either.
C26_DroppedNotBuffered ==
    /\ [](~(bridgeState = "open" /\ bridgeWs # 0 /\ readyState[bridgeWs] = "OPEN")
            => /\ sendMessageOutcome = "warned"
               /\ \A a \in {"authenticate", "register_workspace", "response"} :
                     sendMessage(toServer, BridgeMessage(NoId, a)) = toServer)
    /\ [](\A c \in ConnIds :
            readyState[c] # "OPEN" =>
                \A id \in {NoId} \cup CallIds :
                    /\ sendResponse(c, id, "v1", Undefined) = toServer
                    /\ sendResponse(c, id, Undefined, "boom") = toServer)
    /\ [][(/\ authenticating' = authenticating - 1
           /\ ~(bridgeState = "open" /\ bridgeWs # 0 /\ readyState[bridgeWs] = "OPEN"))
          => toServer' = toServer]_vars
    /\ [][\A c \in ConnIds :
            Len(toServer'[c]) > Len(toServer[c]) =>
                /\ readyState[c] = "OPEN"
                /\ \/ authenticating' = authenticating - 1 /\ bridgeWs = c
                   \/ toClient[c] # <<>> /\ toClient'[c] = Tail(toClient[c])]_vars

\* authenticate() is about to send while the transport is down and the
\* reconnect timer is armed
C26_SendWhileDown ==
    /\ authenticating > 0
    /\ bridgeState = "closed"
    /\ reconnectTimer # 0
    /\ accepted = 1

\* C27: in every state, also after close(), the pendingRequests counter of
\* getConnectionStats() is the number of issued calls whose promise is not
\* settled, totalConnections is the number of registered records, and
\* activeWorkspaces <= authenticatedConnections <= totalConnections.
C27_StatusCountersExact ==
    /\ getConnectionStats.pendingRequests =
          Cardinality({k \in 1..Len(calls) : calls[k].state = "pending"})
    /\ getConnectionStats.totalConnections = Cardinality(ConnIdsOf(connections))
    /\ getConnectionStats.activeWorkspaces <= getConnectionStats.authenticatedConnections
    /\ getConnectionStats.authenticatedConnections <= getConnectionStats.totalConnections

\* C28: a step that removes connection records (close, error or cleanup tick)
\* leaves every pending call that was sent to a record that stays: the call
\* keeps its entry in the pending-call table and its promise is as before.
C28_EvictionSelective ==
    [][LET removed == ConnIdsOf(connections) \ ConnIdsOf(connections') IN
       removed # {} =>
          \A k \in pendingRequests :
              calls[k].target \notin removed =>
                  /\ k \in pendingRequests'
                  /\ calls'[k] = calls[k]]_vars

\* C29: whatever data arrives on a registered open connection, a pending call
\* that was sent to another connection keeps its entry in the pending-call
\* table and its promise stays as it is.
C29_SettledOnlyByOwnConnection ==
    \A i \in 1..Len(connections) :
        readyState[connections[i].id] = "OPEN" =>
            \A k \in pendingRequests :
                calls[k].target # connections[i].id =>
                    \A data \in PeerData :
                        /\ k \in MessageListener(connections[i].id, data).pendingRequests
                        /\ MessageListener(connections[i].id, data).calls[k] = calls[k]

\* C30: a ping envelope received on a registered open connection sets that
\* connection's lastPing to the time of its receipt, so that the record is not
\* found stale by the next cleanup tick.
C30_PingRefreshesLiveness ==
    \A i \in 1..Len(connections) :
        readyState[connections[i].id] = "OPEN" =>
            \A id \in {NoId, PeerMsgId} :
                LET after == MessageListener(connections[i].id,
                                 JSONstringify(BridgeMessage(id, "ping")))
                IN /\ Len(after.connections) = Len(connections)
                   /\ after.connections[i].sinceLastPing = 0
                   /\ after.connections[i].sinceLastPing + HeartbeatInterval <= StaleThreshold

\* C21: of two calls sent to the same connection, the handler of the later one
\* is invoked only after the handler of the earlier one: when the later call's
\* handler was invoked, so was the earlier call's, before it; and no handler
\* is invoked twice.
C21_OrderPreserved ==
    /\ \A i, j \in 1..Len(started) : started[i] = started[j] => i = j
    /\ \A a, b \in 1..Len(calls) :
          (/\ a < b
           /\ calls[a].target # 0
           /\ calls[a].target = calls[b].target
           /\ \E j \in 1..Len(started) : started[j] = b)
          => \E i, j \in 1..Len(started) :
                /\ started[i] = a
                /\ started[j] = b
                /\ i < j

\* calls 1 and 2 were sent on connection 1 before either was answered, their
\* handlers were invoked in that order, and the response to call 2 was sent
\* before the response to call 1
C21_AnsweredOutOfOrder ==
    /\ started = <<1, 2>>
    /\ Len(calls) = 2
    /\ calls[1].target = 1
    /\ calls[2].target = 1
    /\ Len(toServer[1]) = 2
    /\ toServer[1][1].id = 2
    /\ toServer[1][2].id = 1

\* C23: no two calls of sendToExtension are given the same request id, and
\* every call whose promise is pending has an entry of its own in the
\* pending-call table.
C23_RequestIdsUnique ==
    /\ \A i, j \in 1..Len(requestIds) : i # j => requestIds[i] # requestIds[j]
    /\ \A k \in 1..Len(requestIds) :
          promises[k] = "pending" =>
              /\ requestIds[k] \in DOMAIN pendingById
              /\ pendingById[requestIds[k]] = k

\* C31: a register_workspace envelope received on a connection that is bound to
\* a workspace id already leaves that connection bound to the same id.
C31_EndpointIdSetOnce ==
    \A i \in 1..Len(connections) :
        (/\ readyState[connections[i].id] = "OPEN"
         /\ Truthy(connections[i].workspaceId)) =>
            \A id \in {NoId, PeerMsgId}, w \in Workspaces :
                LET after == MessageListener(connections[i].id,
                                 JSONstringify([BridgeMessage(id, "register_workspace")
                                                   EXCEPT !.paramsWorkspaceId = w]))
                IN after.connections[i].workspaceId = connections[i].workspaceId

\* C32: when a transport of the bridge.ts client closes and fewer than ten
\* reconnect attempts were made since a transport last opened, the client arms a
\* reconnect timer.
C32_CountsConsecutiveFailures ==
    [][(/\ tsSocket # "closed"
        /\ tsSocket' = "closed"
        /\ tsSinceOpen < tsMaxReconnectAttempts)
       => tsTimers' = tsTimers + 1]_vars

\* C33: the main.js client lowers its attempt counter or its reconnect delay
\* only in a state in which the server holds an authenticated record of the
\* client's transport bound to the client's workspace id.
C33_ResetOnlyWhenBound ==
    [][(\/ reconnectAttempts' < reconnectAttempts
        \/ reconnectDelay' < reconnectDelay)
       => /\ bridgeWs' # 0
          /\ \E i \in 1..Len(connections') :
                /\ connections'[i].id = bridgeWs'
                /\ connections'[i].isAuthenticated
                /\ connections'[i].workspaceId = BridgeWorkspace]_vars

\* C34 (no duplicate reconnect attempts): each client has at most one
\* reconnect timer armed and at most one transport connecting or open, and it
\* makes a new transport only when the one before has emitted 'close'.
C34_NoDuplicateAttempts ==
    /\ [](/\ armedTimers <= 1
          /\ liveSockets <= 1
          /\ tsTimers <= 1
          /\ tsLive <= 1)
    /\ [][/\ liveSockets' > liveSockets => liveSockets = 0
          /\ tsLive' > tsLive => tsLive = 0]_vars

\* both clients wait for their reconnect timer after a transport that had
\* opened went down
C34_BothWaitingToReconnect ==
    /\ armedTimers = 1
    /\ liveSockets = 0
    /\ reconnectAttempts = 0
    /\ accepted > 0
    /\ tsTimers = 1
    /\ tsLive = 0
    /\ tsOpens > 0

\* C35: while the get_user_info call of the last replit_connect stands
\* rejected, currentWorkspaceId is what it was when that replit_connect was
\* called.
C35_WorkspaceKeptOnFailure ==
    (connectCall # 0 /\ calls[connectCall].state = "rejected")
        => currentWorkspaceId = workspaceBefore

\* the actions the extension handles, sent to the server instead
UnknownActions == {"read_file", "run_command"}

\* C36 as stated: an envelope with an unknown action and an id that is not
\* pending, received on an open connection, is answered with exactly one
\* error envelope carrying the id of that envelope, and leaves the registry
\* and the pending-call table as they are.
C36_SameIdInError ==
    \A i \in 1..Len(connections) :
        readyState[connections[i].id] = "OPEN" =>
            \A id \in ({NoId, PeerMsgId} \cup CallIds) \ pendingRequests :
                \A a \in UnknownActions :
                    \E after \in {MessageListener(connections[i].id,
                                                  JSONstringify(BridgeMessage(id, a)))} :
                        /\ after.sent =
                              <<[to |-> connections[i].id,
                                 data |-> JSONstringify([BridgeMessage(id, "error")
                                              EXCEPT !.error = "Unknown action"])]>>
                        /\ after.connections = connections
                        /\ after.pendingRequests = pendingRequests

\* C36 (amended): such an envelope is answered with exactly one error
\* envelope, on the connection it came from, carrying the id of the envelope
\* when it has one and a generated id when it has none; the registry, the
\* pending-call table, the timers and the calls stay as they are.
C36_UnknownActionRejected ==
    \A i \in 1..Len(connections) :
        readyState[connections[i].id] = "OPEN" =>
            \A id \in ({NoId, PeerMsgId} \cup CallIds) \ pendingRequests :
                \A a \in UnknownActions :
                    \E after \in {MessageListener(connections[i].id,
                                                  JSONstringify(BridgeMessage(id, a)))} :
                        /\ after.sent =
                              <<[to |-> connections[i].id,
                                 data |-> JSONstringify(
                                     [BridgeMessage(IF id # NoId THEN id ELSE GeneratedId,
                                                    "error")
                                         EXCEPT !.error = "Unknown action"])]>>
                        /\ after.connections = connections
                        /\ after.pendingRequests = pendingRequests
                        /\ after.timers = timers
                        /\ after.calls = calls
                        /\ after.regOrder = regOrder

\* an open connection bound to a workspace has a call pending, and another
\* open connection has not authenticated
C36_PendingCallAndStranger ==
    /\ \E k \in pendingRequests : \E i \in 1..Len(connections) :
          /\ calls[k].target = connections[i].id
          /\ connections[i].isAuthenticated
          /\ readyState[connections[i].id] = "OPEN"
    /\ \E j \in 1..Len(connections) :
          /\ ~connections[j].isAuthenticated
          /\ readyState[connections[j].id] = "OPEN"

\* the actions of the envelopes the server sends that are no calls
ControlActions == {"authenticated", "workspace_registered", "pong", "error"}

\* C37 (control traffic quiesces): a step in which the client of main.js
\* handles a control reply of the server on its open transport sends nothing
\* or exactly one envelope, a response; and a response with the error of an
\* unknown action, whatever its id, received on an open connection makes the
\* server send nothing.
C37_ControlTrafficQuiesces ==
    /\ [][\A c \in ConnIds :
            (/\ toClient[c] # <<>>
             /\ toClient'[c] = Tail(toClient[c])
             /\ readyState[c] = "OPEN"
             /\ readyState'[c] = "OPEN"
             /\ JSONparse(Head(toClient[c])).action \in ControlActions)
            => \/ toServer'[c] = toServer[c]
               \/ /\ Len(toServer'[c]) = Len(toServer[c]) + 1
                  /\ SubSeq(toServer'[c], 1, Len(toServer[c])) = toServer[c]
                  /\ JSONparse(toServer'[c][Len(toServer'[c])]).action = "response"]_vars
    /\ [](\A i \in 1..Len(connections) :
            readyState[connections[i].id] = "OPEN" =>
                \A id \in {NoId, PeerMsgId, GeneratedId} \cup CallIds :
                    MessageListener(connections[i].id,
                        JSONstringify([BridgeMessage(id, "response")
                                          EXCEPT !.error = "Unknown action"])).sent = <<>>)

\* the client has answered the server's 'authenticated' with a response that
\* is on its way to the server, while a call is pending
C37_AnswerToControlReplyInFlight ==
    /\ authAcked
    /\ bridgeWs # 0
    /\ pendingRequests # {}
    /\ toServer[bridgeWs] # <<>>
    /\ JSONparse(Head(toServer[bridgeWs])).action = "response"
    /\ JSONparse(Head(toServer[bridgeWs])).id = NoId
    /\ JSONparse(Head(toServer[bridgeWs])).error = "Unknown action"

\* the sum of the amounts of the calls 1..n
RECURSIVE SumOfAmounts(_)
SumOfAmounts(n) == IF n = 0 THEN 0 ELSE amount[n] + SumOfAmounts(n - 1)

\* C38: when every call of increment / decrement has returned, the stored
\* value is the initial value, 0, plus the sum of their amounts.
C38_NoLostUpdate ==
    (\A op \in CounterOps : incPc[op] = "returned")
        => counterValue = <<SumOfAmounts(MaxCounterOps)>>

\* C39: a call of getSession that finds the session expired returns, with
\* null, the key deleted and the id out of the user's list; and a call of
\* deleteSession for an expired session, or of cleanupExpired that finds an
\* expired session, returns.
C39_ExpiredSessionCleanedUp ==
    /\ (sessionCall = "getSession" /\ sessionDepth > 1)
          ~> (/\ sessionCall = "none"
              /\ sessionReturned = "null"
              /\ sessionStore[sessionId] = "none"
              /\ sessionId \notin userSessions)
    /\ (sessionCall = "deleteSession" /\ sessionStore[sessionId] = "expired")
          ~> (sessionCall = "none")
    /\ (sessionCall = "cleanupExpired" /\ sessionDepth > 1)
          ~> (sessionCall = "none")

====
